---- MODULE Spec2Model ----
(***************************************************************************)
(* Waveform scheduler of AudioPlayer: the main (GUI) thread's handlers of  *)
(* audioplayer/controllers/waveform_controller.py and                      *)
(* playlist_controller.py, the WaveformJob worker threads of               *)
(* audioplayer/waveform.py, and the queued signal deliveries between them. *)
(* src/app.py holds the same code in one file.                             *)
(*                                                                         *)
(* Threads.  Every handler runs to completion on the main thread, so each  *)
(* handler is one action.  A WaveformJob runs on its own QThread; its      *)
(* signals (progressReady, resultReady, errorRaised, QThread.finished) are *)
(* queued connections: an emit appends to the main thread's event queue    *)
(* (events) and the handler runs when the main thread takes it out, in     *)
(* FIFO order.                                                             *)
(*                                                                         *)
(* A worker's run() is followed up to its end: the progress ticks it posts *)
(* and the one step in which it posts its last signal and finished.  A     *)
(* stop (cancel + quit + bounded wait) happens inside a handler, so the    *)
(* worker's side of the race is a choice of the stop: StopOutcomes.        *)
(*                                                                         *)
(* Playlist.  Files are added from outside the playlist, so a path is in   *)
(* tracks at most once.  sf.info in load_track fails on a missing file.    *)
(*                                                                         *)
(* Routed playback files.  src/app.py renders a channel-routed copy of a   *)
(* source file into a cache directory and plays the copy (the package's    *)
(* audio_routing_controller.py returns the source path instead): the       *)
(* routing settings, the cache map, the session's set of files, the        *)
(* directory and the player's source are the routing state, followed in    *)
(* SpecRouted.  Loading a track and closing the window touch both parts of *)
(* the state; neither part reads the other, so each is followed on its     *)
(* own.  os.remove succeeds on a file that exists; processEvents inside a  *)
(* resolve delivers nothing; source files differ in (size, mtime_ns) and   *)
(* keep it; a cache key stands for its SHA-1 digest; gains are exact       *)
(* fractions.                                                              *)
(***************************************************************************)
EXTENDS Integers, Sequences, FiniteSets, TLC

\* ---------------------------------------------------------------- bounds
NumPaths == 4        \* distinct audio files (the playlist holds each at most once)
ShortPlaylist == 3   \* files the playlist has held, where every operation is explored
MaxJobs == 2         \* decode jobs started, both slots together
MaxJobsClosed == 1   \* decode jobs started after the window was closed
MaxFairJobs == 3     \* decode jobs started or queued, where runs are followed to their end
MaxFairRemoved == 1  \* tracks removed, where runs are followed to their end
MaxPendingTicks == 1 \* progress ticks of one job waiting in the event queue
MaxFileChanges == 1  \* times a file is modified or deleted
MaxAbandoned == 1    \* workers alive after a stop's wait bound elapsed
MaxEvents == 2       \* posted signals waiting in the main thread's event queue
TotalBins == 1       \* waveform bins of a file
MaxEvicted == 1      \* entries evicted from wave_cache
MaxCacheUses == 1    \* reads, re-stores and clears of wave_cache in a row of stores
MaxFrameCount == 40  \* frames of a file, where only the bin count is computed
MaxTargetBins == 12  \* points of a job, where only the bin count is computed
MaxDecodeFrames == 4 \* frames of a file that is decoded
MaxDecodePoints == 3 \* points of a job that decodes
MaxChannels == 2     \* channels of a file that is decoded
MaxSample == 1       \* samples are -MaxSample..MaxSample
AmpScale == 2        \* amplitudes are multiples of 1/AmpScale
MaxAlignRows == 2    \* rows of an amplitude array that is aligned
MaxRoutedEvicted == 1   \* source files beyond the capacity of the routed-file cache
MaxRoutedExtras == 2    \* steps other than the load of a new file, per run
RoutedChannels == 2     \* channels of a source file and of the output device
MaxPreloadJobs == 3      \* decode jobs started, where only loads and preloads run
MaxPreloadFileChanges == 2  \* file changes, where only loads and preloads run
MaxProgressExtra == 8    \* frames of a file beyond ShortFrames or LongFrames
ShortFrames == 8192      \* a file read in two chunks has more frames than this
LongFrames == 411600     \* a file read in chunks of whole buckets has more than this

\* ------------------------------------------------------- program constants
WaveCacheLimit == 40         \* _cache_store: len(self.wave_cache) > 40
MinPoints == 1200            \* _set_waveform_resolution clamp
MaxPoints == 24000
DefaultPoints == 4200        \* self._waveform_points = 4200

Paths == 1..NumPaths
NoPath == 0                  \* the empty path ""
NoSig == <<0, 0>>            \* the empty signature ""
NoThread == 0                \* None in _active_wave_thread / _preload_thread
NoIndex == 0                 \* current_index None, playlist.currentRow() -1
RoutingSize == 12            \* len(ROUTING_CHANNEL_LABELS)
RoutedCacheLimit == 16
ChunkBuckets == 24           \* chunk_frames = min(max(bucket * 24, 8192), 262144)
MinChunkFrames == 8192
MaxChunkFrames == 262144

\* The resolutions the model switches between (settings dialog values,
\* clamped by _set_waveform_resolution).
Resolutions == {MinPoints, DefaultPoints}

VARIABLES
    tracks,                  \* self.tracks: sequence of paths (rows 1..Len)
    current_index,           \* self.current_index (NoIndex for None)
    playlist_row,            \* QListWidget current row of self.playlist
    waveform_points,         \* self._waveform_points
    file_sig,                \* file system: path -> stat version, 0 = missing
    wave_cache,              \* self.wave_cache: insertion-ordered dict, as a sequence
    wave_partial,            \* self.wave_partial: path -> entry or NoPartial
    preload_queue,           \* self._preload_queue
    preload_set,             \* self._preload_set
    active_request_id,       \* self._active_wave_request_id
    active_thread,           \* self._active_wave_thread (request id of the job object)
    active_path,             \* self._active_wave_path
    active_signature,        \* self._active_wave_signature
    active_failed,           \* self._active_wave_failed
    preload_request_id,      \* self._preload_request_id
    preload_thread,          \* self._preload_thread
    preload_path,            \* self._preload_path
    preload_signature,       \* self._preload_signature
    display,                 \* what the plot shows
    workers,                 \* WaveformJob threads that are running
    events,                  \* main thread's queue of posted signal deliveries
    closed,                  \* closeEvent has run
    cancel_called,           \* history: the jobs <<slot, rid>> cancel() was called on
    known,                   \* history: paths 1..known have been in the playlist
    file_changes,            \* history: file modifications so far
    last,                    \* history: the main-thread step that ran last
    advanced,                \* history: the _start_next_preload calls of that step
    failed_jobs,             \* history: the paths a job of which ended with errorRaised
    cache_hist,              \* history of wave_cache: order of use, last eviction
    calc,                    \* a computation on its own: its inputs and its result
    audio_routing,           \* _audio_matrix_enabled, _audio_routing_mode, _audio_routing_matrix
    routed_audio_cache,      \* self._routed_audio_cache: insertion-ordered dict, as a sequence
    session_routed_files,    \* self._session_routed_files
    routed_dir,              \* file system: the files of self._routed_audio_dir
    player_source,           \* self.player.source().toLocalFile()
    current_track_path,      \* self._current_track_path(), as the routing code reads it
    routed_hist              \* history: the routing step that ran last

vars == <<tracks, current_index, playlist_row, waveform_points, file_sig,
          wave_cache, wave_partial, preload_queue, preload_set,
          active_request_id, active_thread, active_path, active_signature,
          active_failed, preload_request_id, preload_thread, preload_path,
          preload_signature, display, workers, events, closed, cancel_called,
          known, file_changes, last, advanced, failed_jobs, cache_hist, calc,
          audio_routing,
          routed_audio_cache, session_routed_files, routed_dir, player_source,
          current_track_path, routed_hist>>

\* The scheduler's state and its history.
scheduler_vars ==
    <<tracks, current_index, playlist_row, waveform_points, file_sig,
      wave_cache, wave_partial, preload_queue, preload_set,
      active_request_id, active_thread, active_path, active_signature,
      active_failed, preload_request_id, preload_thread, preload_path,
      preload_signature, display, workers, events, closed, cancel_called,
      known, file_changes, last, advanced, failed_jobs, cache_hist>>

\* The routed-file cache's state and its history.
routing_vars ==
    <<audio_routing, routed_audio_cache, session_routed_files, routed_dir,
      player_source, current_track_path, routed_hist>>

\* The whole state as one record, so that a handler is a function from state
\* to state and handlers compose the way the calls in the code nest.
St ==
    [tracks |-> tracks, current_index |-> current_index,
     playlist_row |-> playlist_row, waveform_points |-> waveform_points,
     file_sig |-> file_sig, wave_cache |-> wave_cache,
     wave_partial |-> wave_partial, preload_queue |-> preload_queue,
     preload_set |-> preload_set, active_request_id |-> active_request_id,
     active_thread |-> active_thread, active_path |-> active_path,
     active_signature |-> active_signature, active_failed |-> active_failed,
     preload_request_id |-> preload_request_id,
     preload_thread |-> preload_thread, preload_path |-> preload_path,
     preload_signature |-> preload_signature, display |-> display,
     workers |-> workers, events |-> events, closed |-> closed,
     cancel_called |-> cancel_called, known |-> known,
     file_changes |-> file_changes, warned |-> FALSE, advances |-> <<>>]

ApplyState(t, l) ==
    /\ tracks' = t.tracks
    /\ current_index' = t.current_index
    /\ playlist_row' = t.playlist_row
    /\ waveform_points' = t.waveform_points
    /\ file_sig' = t.file_sig
    /\ wave_cache' = t.wave_cache
    /\ wave_partial' = t.wave_partial
    /\ preload_queue' = t.preload_queue
    /\ preload_set' = t.preload_set
    /\ active_request_id' = t.active_request_id
    /\ active_thread' = t.active_thread
    /\ active_path' = t.active_path
    /\ active_signature' = t.active_signature
    /\ active_failed' = t.active_failed
    /\ preload_request_id' = t.preload_request_id
    /\ preload_thread' = t.preload_thread
    /\ preload_path' = t.preload_path
    /\ preload_signature' = t.preload_signature
    /\ display' = t.display
    /\ workers' = t.workers
    /\ events' = t.events
    /\ closed' = t.closed
    /\ cancel_called' = t.cancel_called
    /\ known' = t.known
    /\ file_changes' = t.file_changes
    /\ last' = l
    /\ advanced' = t.advances

Apply(t, l) ==
    ApplyState(t, l) /\ UNCHANGED <<failed_jobs, cache_hist, calc, routing_vars>>

NoPartial == [sig |-> NoSig, slot |-> "-", rid |-> 0, filled |-> 0, total |-> 0]
ClearDisplay == [kind |-> "clear", slot |-> "-", rid |-> 0, path |-> NoPath, upto |-> 0]

Min(a, b) == IF a <= b THEN a ELSE b
Max(a, b) == IF a >= b THEN a ELSE b


\* ------------------------------------------------------------ file system
\* os.stat(path) raises when the file is missing.
FileMissing(s, path) == s.file_sig[path] = 0

\* _file_signature(path, points): "<size>:<mtime_ns>|p<points>".  The pair
\* (stat version, points) stands for the string.
FileSignature(s, path) == <<s.file_sig[path], s.waveform_points>>

\* try: signature = self._file_signature(...) except: signature = ""
SignatureOrEmpty(s, path) ==
    IF FileMissing(s, path) THEN NoSig ELSE FileSignature(s, path)

\* ------------------------------------------------------------- wave_cache
CachePos(cache, path) ==
    IF \E i \in 1..Len(cache) : cache[i].path = path
    THEN CHOOSE i \in 1..Len(cache) : cache[i].path = path
    ELSE 0

C13CacheStoreUnbounded(cache, path, signature, slot, rid) ==
    LET e == [path |-> path, sig |-> signature, slot |-> slot, rid |-> rid]
        i == CachePos(cache, path)
    IN  IF i # 0 THEN [cache EXCEPT ![i] = e] ELSE Append(cache, e)

C6CacheGetAnySig(cache, path, signature) == CachePos(cache, path) # 0

\* _cache_get: the entry, when one is stored for path under this signature.
CacheGet(cache, path, signature) ==
    /\ CachePos(cache, path) # 0
    /\ cache[CachePos(cache, path)].sig = signature

CacheEntry(cache, path) == cache[CachePos(cache, path)]

\* _cache_store: assignment keeps an existing key's position in the dict and
\* puts a new key last; beyond the limit the first key is popped.
CacheStore(cache, path, signature, slot, rid) ==
    LET e == [path |-> path, sig |-> signature, slot |-> slot, rid |-> rid]
        i == CachePos(cache, path)
        c1 == IF i # 0 THEN [cache EXCEPT ![i] = e] ELSE Append(cache, e)
    IN  IF Len(c1) > WaveCacheLimit THEN Tail(c1) ELSE c1

\* ---------------------------------------------------------------- display
\* _clear_waveform_plot
ClearWaveformPlot(s) == [s EXCEPT !.display = ClearDisplay]

\* _set_waveform_from_channels(x, amplitudes) with the arrays a job produced
\* (never empty: a job's result has at least one bin).
SetWaveformFromChannels(s, slot, rid, path) ==
    [s EXCEPT !.display = [kind |-> "final", slot |-> slot, rid |-> rid,
                           path |-> path, upto |-> 0]]

\* _current_track_path
CurrentTrackPath(s) ==
    IF s.current_index = NoIndex THEN NoPath
    ELSE IF s.current_index < 1 \/ s.current_index > Len(s.tracks) THEN NoPath
    ELSE s.tracks[s.current_index]

\* _render_partial_for_path: whether it returns True ...
RenderPartialHit(s, path, signature) ==
    /\ s.wave_partial[path] # NoPartial
    /\ s.wave_partial[path].sig = signature

\* ... and what it draws when it does.
RenderPartialForPath(s, path, signature) ==
    LET partial == s.wave_partial[path]
        total_bins == IF partial.total <= 0 THEN 1 ELSE partial.total
        filled_bins == Max(0, Min(partial.filled, total_bins))
        upto == Max(0, Min(filled_bins, partial.total))
    IN  IF ~RenderPartialHit(s, path, signature) THEN s
        ELSE IF upto <= 0 THEN ClearWaveformPlot(s)
        ELSE [s EXCEPT !.display = [kind |-> "partial", slot |-> partial.slot,
                                    rid |-> partial.rid, path |-> path,
                                    upto |-> upto]]

\* -------------------------------------------------- WaveformJob.run: bins
\* math.ceil(a / b) for a >= 0 and b >= 1
CeilDiv(a, b) == (a + b - 1) \div b

C16BucketRoundedDown(total_frames, points) ==
    Max(1, total_frames \div points)

C32BucketIsWholeFile(total_frames, points) == Max(1, total_frames)

\* bucket = max(1, math.ceil(total_frames / self.points))
BucketSize(total_frames, points) == Max(1, CeilDiv(total_frames, points))

C39BinCountRoundedDown(total_frames, bucket) ==
    Max(1, total_frames \div bucket)

\* bins = max(1, math.ceil(total_frames / bucket))
BinCount(total_frames, bucket) == Max(1, CeilDiv(total_frames, bucket))

\* -------------------------------------------- WaveformJob.run: decimation
Abs(v) == IF v < 0 THEN -v ELSE v

SetMax(S) == CHOOSE x \in S : \A y \in S : y <= x

\* idx = (frame_pos + np.arange(frame_count)) // bucket, idx[idx >= bins] =
\* bins - 1, for the frame at position pos (from 0); bins count from 0.
BinIndex(pos, bucket, bins) == Min(pos \div bucket, bins - 1)

C17AccumulateOverwrites(old, values) ==
    IF values = {} THEN old ELSE SetMax(values)

\* np.maximum.at(amp[:, channel_index], idx, abs_chunk[:, channel_index]) for
\* one bin: old is the bin's value, values the chunk's values of that bin.
Accumulate(old, values) == SetMax({old} \cup values)

\* Lines 79-86 for the chunk of frame_count frames at frame_pos.  samples[i]
\* is frame i (from 1), a sequence of one value per channel.
AfterChunk(amp, samples, frame_pos, frame_count, bucket, bins) ==
    [b \in 1..bins |->
       [c \in 1..Len(amp[b]) |->
          Accumulate(amp[b][c],
                     {Abs(samples[i][c]) :
                        i \in {j \in (frame_pos + 1)..(frame_pos + frame_count) :
                                 BinIndex(j - 1, bucket, bins) = b - 1}})]]

\* ---------------------------------------------- WaveformJob.run: progress
\* chunk_frames = min(max(bucket * 24, 8192), 262144)
ChunkFrames(bucket) ==
    Min(Max(bucket * ChunkBuckets, MinChunkFrames), MaxChunkFrames)

C30FilledOneMore(frame_pos, bucket, bins) ==
    Min(bins, CeilDiv(frame_pos, bucket) + 1)

\* filled = min(bins, math.ceil(frame_pos / bucket))
FilledBins(frame_pos, bucket, bins) == Min(bins, CeilDiv(frame_pos, bucket))

\* Lines 79-86 for a mono file whose samples are 0 except at the frames of
\* loud (counted from 0), where they are 1 or -1.  amp is written as the set
\* of the bins (from 0) whose value is 1; every other bin holds 0.
AfterChunkLoud(amp, loud, frame_pos, frame_count, bucket, bins) ==
    amp \cup {BinIndex(pos, bucket, bins) :
                pos \in {p \in loud : p >= frame_pos
                                         /\ p < frame_pos + frame_count}}

\* ------------------------------------------------- _align_wave_channels
\* A float32 value: a finite multiple v of 1/AmpScale, or NaN or an infinity.
Finite(v) == [kind |-> "finite", v |-> v]
NaN == [kind |-> "nan", v |-> 0]
PosInf == [kind |-> "posinf", v |-> 0]
NegInf == [kind |-> "neginf", v |-> 0]

C18NanToNumAllZero(value) ==
    IF value.kind = "finite" THEN value ELSE Finite(0)

\* np.nan_to_num(amp_arr, nan=0.0, posinf=1.0, neginf=0.0) for one value
NanToNum(value) ==
    CASE value.kind = "nan" -> Finite(0)
      [] value.kind = "posinf" -> Finite(AmpScale)
      [] value.kind = "neginf" -> Finite(0)
      [] OTHER -> value

\* np.clip(amp_arr, 0.0, 1.0) for one finite value
Clip(value) == Finite(Max(0, Min(value.v, AmpScale)))

\* _align_wave_channels(x, amplitudes) for x of x_size values and a
\* two-dimensional amplitudes (rows of one value per channel), as a job emits
\* them: the amplitude array it returns.
AlignWaveChannels(x_size, amplitudes) ==
    IF x_size = 0 \/ Len(amplitudes) = 0 THEN <<>>
    ELSE LET n == Min(x_size, Len(amplitudes))
         IN  [r \in 1..n |->
                [c \in 1..Len(amplitudes[r]) |->
                   Clip(NanToNum(amplitudes[r][c]))]]

\* ---------------------------------------------------------- worker threads
\* A WaveformJob whose run() has not returned.  sig is the signature the
\* scheduler captured when it started the job (the job itself does not hold
\* it); emit is emit_progress; cancelled is _cancelled.
NewWorker(slot, rid, path, signature, emit) ==
    [slot |-> slot, rid |-> rid, path |-> path, sig |-> signature,
     emit |-> emit, cancelled |-> FALSE]

\* A queued signal.  out is history: what the job emitted before its thread
\* finished.
Msg(kind, w, filled) ==
    [kind |-> kind, slot |-> w.slot, rid |-> w.rid, path |-> w.path,
     sig |-> w.sig, filled |-> filled, total |-> TotalBins, out |-> "-"]

\* How run() ends once cancel() has been called.  The flag is read at lines
\* 74, 95 and 100 and the signal is emitted after the read, so a worker that
\* read the flag just before cancel() set it still emits:
\*   "quiet"   the flag was seen: nothing is emitted
\*   "result"  line 95 was passed before cancel(), or the file has no frames
\*             and line 61 emits without reading the flag: resultReady is
\*             emitted
\*   "error"   line 100 was passed before cancel(): errorRaised is emitted
\* QThread.finished follows in every case.
EndOutcomes == {"quiet", "result", "error"}

\* "timeout": run() does not end within the wait bound.
StopOutcomes == EndOutcomes \cup {"timeout"}

RunOut(w, outcome) ==
    LET finished == [Msg("finished", w, 0) EXCEPT !.out = outcome]
    IN  CASE outcome = "result" -> <<Msg("result", w, 0), finished>>
          [] outcome = "error" -> <<Msg("error", w, 0), finished>>
          [] OTHER -> <<finished>>

WorkerOf(s, slot, rid) == {w \in s.workers : w.slot = slot /\ w.rid = rid}

\* The ways a stop of the slot's job can go: one, if its run() has ended.
OutcomesOfStop(s, slot) ==
    IF WorkerOf(s, slot, IF slot = "A" THEN s.active_thread
                         ELSE s.preload_thread) = {}
    THEN {"quiet"} ELSE StopOutcomes

\* _start_active_wave_worker
StartActiveWaveWorker(s, path, signature, emit_progress) ==
    LET request_id == s.active_request_id + 1
    IN  [s EXCEPT !.active_request_id = request_id,
                  !.active_path = path,
                  !.active_signature = signature,
                  !.active_failed = FALSE,
                  !.active_thread = request_id,
                  !.workers = @ \cup {NewWorker("A", request_id, path,
                                                signature, emit_progress)}]

\* _start_preload_wave_worker
StartPreloadWaveWorker(s, path, signature, emit_progress) ==
    LET request_id == s.preload_request_id + 1
    IN  [s EXCEPT !.preload_request_id = request_id,
                  !.preload_path = path,
                  !.preload_signature = signature,
                  !.preload_thread = request_id,
                  !.workers = @ \cup {NewWorker("P", request_id, path,
                                                signature, emit_progress)}]

\* thread.cancel() followed by thread.wait(wait_ms) / thread.wait(3000): the
\* main thread is blocked meanwhile.  Either the worker ends within the wait,
\* having posted what it still had to post, or (outcome "timeout") the wait
\* bound elapses with the worker still in a read; it stays alive, cancelled.
\* A thread object whose run() has already ended has no worker left.
CancelAndWait(s, slot, rid, outcome) ==
    LET ws == WorkerOf(s, slot, rid)
        s1 == [s EXCEPT !.cancel_called = @ \cup {<<slot, rid>>}]
    IN  IF ws = {} THEN s1
        ELSE LET w == CHOOSE x \in ws : TRUE
             IN  IF outcome # "timeout"
                 THEN [s1 EXCEPT !.workers = @ \ {w},
                                 !.events = @ \o RunOut(w, outcome)]
                 ELSE [s1 EXCEPT !.workers =
                                    (@ \ {w}) \cup {[w EXCEPT !.cancelled = TRUE]}]

C2StopActiveKeepsPath(s, outcome) ==
    LET s1 == IF s.active_thread # NoThread
              THEN CancelAndWait(s, "A", s.active_thread, outcome)
              ELSE s
    IN  [s1 EXCEPT !.active_thread = NoThread, !.active_failed = FALSE]

\* _stop_active_wave_worker
StopActiveWaveWorker(s, outcome) ==
    LET s1 == IF s.active_thread # NoThread
              THEN CancelAndWait(s, "A", s.active_thread, outcome)
              ELSE s
    IN  [s1 EXCEPT !.active_thread = NoThread,
                   !.active_path = NoPath,
                   !.active_signature = NoSig,
                   !.active_failed = FALSE]

C7StopPreloadKeepsPath(s, requeue, outcome) ==
    LET s1 == IF s.preload_thread # NoThread
              THEN CancelAndWait(s, "P", s.preload_thread, outcome)
              ELSE s
    IN  [s1 EXCEPT !.preload_thread = NoThread]

\* _stop_preload_worker
StopPreloadWorker(s, requeue, outcome) ==
    LET path_to_requeue == IF requeue THEN s.preload_path ELSE NoPath
        s1 == IF s.preload_thread # NoThread
              THEN CancelAndWait(s, "P", s.preload_thread, outcome)
              ELSE s
        s2 == [s1 EXCEPT !.preload_thread = NoThread]
        s3 == IF requeue /\ path_to_requeue # NoPath
                 /\ path_to_requeue \notin s2.preload_set
              THEN [s2 EXCEPT !.preload_queue = <<path_to_requeue>> \o @,
                              !.preload_set = @ \cup {path_to_requeue}]
              ELSE s2
    IN  [s3 EXCEPT !.preload_path = NoPath, !.preload_signature = NoSig]


\* ---------------------------------------------------------- preload queue
C9QueueKeepsPath(s, path) == s

\* _remove_from_preload_queue
RemoveFromPreloadQueue(s, path) ==
    IF path \in s.preload_set
    THEN [s EXCEPT !.preload_set = @ \ {path},
                   !.preload_queue = SelectSeq(@, LAMBDA q : q # path)]
    ELSE s

C29StartsHead(s) ==
    IF s.preload_thread # NoThread \/ s.preload_queue = <<>> THEN s
    ELSE LET path == Head(s.preload_queue)
         IN  StartPreloadWaveWorker(
                 [s EXCEPT !.preload_queue = Tail(@),
                           !.preload_set = @ \ {path}],
                 path, SignatureOrEmpty(s, path), path = CurrentTrackPath(s))

\* The body of _start_next_preload.
RECURSIVE AdvancePreloadQueue(_)
AdvancePreloadQueue(s) ==
    IF s.preload_thread # NoThread THEN s
    ELSE IF s.preload_queue = <<>> THEN s
    ELSE LET path == Head(s.preload_queue)
             s1 == [s EXCEPT !.preload_queue = Tail(@),
                             !.preload_set = @ \ {path}]
         IN  IF path = s1.active_path THEN AdvancePreloadQueue(s1)
             ELSE IF FileMissing(s1, path) THEN AdvancePreloadQueue(s1)
             ELSE IF CacheGet(s1.wave_cache, path, FileSignature(s1, path))
                  THEN AdvancePreloadQueue(s1)
             ELSE StartPreloadWaveWorker(s1, path, FileSignature(s1, path),
                                         path = CurrentTrackPath(s1))

\* What a call of _start_next_preload found (s) and left (t): the queue, the
\* entries of it that are the Active path, that have no file, that are cached
\* under their signature; the queue afterwards and the job started.
AdvanceRecord(s, t) ==
    LET queued == {s.preload_queue[i] : i \in 1..Len(s.preload_queue)}
        started == t.preload_request_id # s.preload_request_id
    IN  [busy |-> s.preload_thread # NoThread,
         queue |-> s.preload_queue,
         active_path |-> s.active_path,
         current |-> CurrentTrackPath(s),
         missing |-> {p \in queued : FileMissing(s, p)},
         cached |-> {p \in queued :
                       /\ ~FileMissing(s, p)
                       /\ CacheGet(s.wave_cache, p, FileSignature(s, p))},
         after |-> t.preload_queue,
         after_set |-> t.preload_set,
         started |-> IF started THEN t.preload_path ELSE NoPath,
         emit |-> {w.emit : w \in WorkerOf(t, "P", t.preload_request_id)}
                    \cap (IF started THEN BOOLEAN ELSE {})]

\* _start_next_preload
StartNextPreload(s) ==
    LET t == AdvancePreloadQueue(s)
    IN  [t EXCEPT !.advances = Append(@, AdvanceRecord(s, t))]

RECURSIVE C36EnqueueSlotPaths(_, _)
C36EnqueueSlotPaths(s, paths) ==
    IF paths = <<>> THEN s
    ELSE LET path == Head(paths)
             skip == \/ path \in s.preload_set
                     \/ FileMissing(s, path)
                     \/ CacheGet(s.wave_cache, path, FileSignature(s, path))
             s1 == IF skip THEN s
                   ELSE [s EXCEPT !.preload_queue = Append(@, path),
                                  !.preload_set = @ \cup {path}]
         IN  C36EnqueueSlotPaths(s1, Tail(paths))

\* The loop of _enqueue_preload ...
RECURSIVE EnqueueEach(_, _)
EnqueueEach(s, paths) ==
    IF paths = <<>> THEN s
    ELSE LET path == Head(paths)
             skip == \/ path = s.active_path
                     \/ path = s.preload_path
                     \/ path \in s.preload_set
                     \/ FileMissing(s, path)
                     \/ CacheGet(s.wave_cache, path, FileSignature(s, path))
             s1 == IF skip THEN s
                   ELSE [s EXCEPT !.preload_queue = Append(@, path),
                                  !.preload_set = @ \cup {path}]
         IN  EnqueueEach(s1, Tail(paths))

\* ... and _enqueue_preload
EnqueuePreload(s, paths) == StartNextPreload(EnqueueEach(s, paths))

\* self._preload_thread.emit_progress = True
SetPreloadEmitProgress(s) ==
    [s EXCEPT !.workers =
        {IF w.slot = "P" /\ w.rid = s.preload_thread
         THEN [w EXCEPT !.emit = TRUE] ELSE w : w \in @}]

C4LoadCancelsActive(s, path) ==
    IF s.active_thread = NoThread
    THEN StartActiveWaveWorker(ClearWaveformPlot(s), path,
                               SignatureOrEmpty(s, path), TRUE)
    ELSE IF s.active_path # path
    THEN StopActiveWaveWorker(s, "quiet")
    ELSE s

C5LoadQueuesAtBack(s, path) ==
    LET signature == SignatureOrEmpty(s, path)
        s1 == RemoveFromPreloadQueue(s, path)
    IN  IF CacheGet(s1.wave_cache, path, signature)
        THEN LET e == CacheEntry(s1.wave_cache, path)
             IN  StartNextPreload(SetWaveformFromChannels(s1, e.slot, e.rid, path))
        ELSE IF s1.active_path = path /\ s1.active_thread # NoThread
        THEN s1
        ELSE IF s1.preload_path = path /\ s1.preload_thread # NoThread
        THEN SetPreloadEmitProgress(s1)
        ELSE LET s2 == ClearWaveformPlot(s1)
             IN  IF s2.active_thread = NoThread
                 THEN StartActiveWaveWorker(s2, path, signature, TRUE)
                 ELSE IF s2.preload_thread = NoThread
                 THEN StartPreloadWaveWorker(s2, path, signature, TRUE)
                 ELSE [s2 EXCEPT !.preload_queue = Append(@, path),
                                 !.preload_set = @ \cup {path}]


\* _load_waveform_for_track
LoadWaveformForTrack(s, path) ==
    LET signature == SignatureOrEmpty(s, path)
        s1 == RemoveFromPreloadQueue(s, path)
    IN  IF CacheGet(s1.wave_cache, path, signature)
        THEN LET e == CacheEntry(s1.wave_cache, path)
             IN  StartNextPreload(SetWaveformFromChannels(s1, e.slot, e.rid, path))
        ELSE IF s1.active_path = path /\ s1.active_thread # NoThread
        THEN IF RenderPartialHit(s1, path, signature)
             THEN RenderPartialForPath(s1, path, signature)
             ELSE ClearWaveformPlot(s1)
        ELSE IF s1.preload_path = path /\ s1.preload_thread # NoThread
        THEN LET s2 == SetPreloadEmitProgress(s1)
             IN  IF RenderPartialHit(s2, path, signature)
                 THEN RenderPartialForPath(s2, path, signature)
                 ELSE ClearWaveformPlot(s2)
        ELSE LET s2 == ClearWaveformPlot(s1)
             IN  IF s2.active_thread = NoThread
                 THEN StartActiveWaveWorker(s2, path, signature, TRUE)
                 ELSE IF s2.preload_thread = NoThread
                 THEN StartPreloadWaveWorker(s2, path, signature, TRUE)
                 ELSE IF path \notin s2.preload_set
                 THEN [s2 EXCEPT !.preload_queue = <<path>> \o @,
                                 !.preload_set = @ \cup {path}]
                 ELSE s2

\* ------------------------------------------------- callbacks (queued slots)
\* The guard every Active callback starts with:
\*   if request_id != self._active_wave_request_id or path != self._active_wave_path: return
C1ActiveAcceptsOnRequestId(s, m) == m.rid = s.active_request_id

C34ActiveAcceptsOnPath(s, m) == m.path = s.active_path

ActiveAccepts(s, m) ==
    m.rid = s.active_request_id /\ m.path = s.active_path

\* if request_id != self._preload_request_id or path != self._preload_path: return
PreloadAccepts(s, m) ==
    m.rid = s.preload_request_id /\ m.path = s.preload_path

\* The partial entry both progress handlers store: total_bins and filled_bins
\* normalised as in lines 413-417 / 571-575.
PartialEntry(signature, m) ==
    LET total_bins == IF m.total <= 0 THEN 1 ELSE m.total
        filled_bins == Max(0, Min(m.filled, total_bins))
    IN  [sig |-> signature, slot |-> m.slot, rid |-> m.rid,
         filled |-> filled_bins, total |-> total_bins]

\* _on_active_wave_progress.  suppress: the player is playing and
\* time.monotonic() < self._suppress_waveform_render_until.
OnActiveWaveProgress(s, m, suppress) ==
    IF ~ActiveAccepts(s, m) THEN s
    ELSE LET s1 == [s EXCEPT !.wave_partial[m.path] =
                                  PartialEntry(s.active_signature, m)]
         IN  IF CurrentTrackPath(s1) = m.path /\ ~suppress
             THEN RenderPartialForPath(s1, m.path, s1.active_signature)
             ELSE s1

\* _on_active_wave_finished
OnActiveWaveFinished(s, m) ==
    IF ~ActiveAccepts(s, m) THEN s
    ELSE LET s1 == [s EXCEPT !.active_failed = FALSE,
                             !.wave_partial[m.path] = NoPartial,
                             !.wave_cache = CacheStore(@, m.path,
                                 s.active_signature, m.slot, m.rid)]
         IN  IF CurrentTrackPath(s1) = m.path
             THEN SetWaveformFromChannels(s1, m.slot, m.rid, m.path)
             ELSE s1

C11ActiveFailedWarnsAlways(s, m) ==
    IF ~ActiveAccepts(s, m) THEN s
    ELSE [s EXCEPT !.active_failed = TRUE,
                   !.wave_partial[m.path] = NoPartial,
                   !.warned = TRUE]

\* _on_active_wave_failed
OnActiveWaveFailed(s, m) ==
    IF ~ActiveAccepts(s, m) THEN s
    ELSE LET s1 == [s EXCEPT !.active_failed = TRUE,
                             !.wave_partial[m.path] = NoPartial]
         IN  IF CurrentTrackPath(s1) = m.path
             THEN [ClearWaveformPlot(s1) EXCEPT !.warned = TRUE]
             ELSE s1

C8ThreadFinishedNeverRestarts(s, m) ==
    IF m.rid # s.active_request_id THEN s
    ELSE StartNextPreload([s EXCEPT !.active_thread = NoThread,
                                    !.active_path = NoPath,
                                    !.active_signature = NoSig,
                                    !.active_failed = FALSE])

\* _on_active_wave_thread_finished
OnActiveWaveThreadFinished(s, m) ==
    IF m.rid # s.active_request_id THEN s
    ELSE LET finished_path == s.active_path
             finished_signature == s.active_signature
             ended_with_error == s.active_failed
             has_final == /\ finished_path # NoPath
                          /\ CacheGet(s.wave_cache, finished_path,
                                      finished_signature)
             s1 == [s EXCEPT !.active_thread = NoThread,
                             !.active_path = NoPath,
                             !.active_signature = NoSig,
                             !.active_failed = FALSE]
         IN  IF /\ finished_path # NoPath
                /\ ~ended_with_error
                /\ ~has_final
                /\ CurrentTrackPath(s1) = finished_path
                /\ s1.active_thread = NoThread
             THEN StartActiveWaveWorker(s1, finished_path,
                                        finished_signature, TRUE)
             ELSE StartNextPreload(s1)

\* _on_preload_progress
OnPreloadProgress(s, m, suppress) ==
    IF ~PreloadAccepts(s, m) THEN s
    ELSE LET s1 == [s EXCEPT !.wave_partial[m.path] =
                                  PartialEntry(s.preload_signature, m)]
         IN  IF CurrentTrackPath(s1) = m.path /\ ~suppress
             THEN RenderPartialForPath(s1, m.path, s1.preload_signature)
             ELSE s1

\* _on_preload_finished
OnPreloadFinished(s, m) ==
    IF ~PreloadAccepts(s, m) THEN s
    ELSE LET s1 == [s EXCEPT !.wave_partial[m.path] = NoPartial,
                             !.wave_cache = CacheStore(@, m.path,
                                 s.preload_signature, m.slot, m.rid)]
         IN  IF CurrentTrackPath(s1) = m.path
             THEN SetWaveformFromChannels(s1, m.slot, m.rid, m.path)
             ELSE s1

\* _on_preload_failed
OnPreloadFailed(s, m) ==
    IF ~PreloadAccepts(s, m) THEN s
    ELSE LET s1 == [s EXCEPT !.wave_partial[m.path] = NoPartial]
         IN  IF CurrentTrackPath(s1) = m.path
             THEN ClearWaveformPlot(s1)
             ELSE s1

C38PreloadFinishedDropsQueue(s, m) ==
    IF m.rid # s.preload_request_id THEN s
    ELSE [s EXCEPT !.preload_thread = NoThread,
                   !.preload_path = NoPath,
                   !.preload_signature = NoSig,
                   !.preload_queue = <<>>,
                   !.preload_set = {}]

\* _on_preload_wave_thread_finished
OnPreloadWaveThreadFinished(s, m) ==
    IF m.rid # s.preload_request_id THEN s
    ELSE StartNextPreload([s EXCEPT !.preload_thread = NoThread,
                                    !.preload_path = NoPath,
                                    !.preload_signature = NoSig])


\* ----------------------------------------------------- playlist handlers
\* [t.path for i, t in enumerate(self.tracks) if i != row]
OtherPaths(trk, row) ==
    SubSeq(trk, 1, row - 1) \o SubSeq(trk, row + 1, Len(trk))

\* load_track(row).  sf.info(path) raises on a missing file; the except
\* branch only reports, so current_index is the one field that has changed.
LoadTrack(s, row) ==
    IF row < 1 \/ row > Len(s.tracks) THEN s
    ELSE LET s1 == [s EXCEPT !.current_index = row]
             path == s.tracks[row]
         IN  IF FileMissing(s1, path) THEN s1
             ELSE EnqueuePreload(LoadWaveformForTrack(s1, path),
                                 OtherPaths(s1.tracks, row))

\* self.playlist.setCurrentRow(row): QListWidget emits currentRowChanged, which
\* is connected to load_track, only when the current row changes; a row out of
\* range leaves no current row (-1).
SetCurrentRow(s, row) ==
    LET r == IF row < 1 \/ row > Len(s.tracks) THEN NoIndex ELSE row
    IN  IF r = s.playlist_row THEN s
        ELSE LoadTrack([s EXCEPT !.playlist_row = r], r)

\* add_files.  new_paths is what _normalize_input_paths returns: existing
\* files, no duplicates.  activate is should_activate_first_new, which
\* _autoplay_on_add, the playback state and select_first_new decide.
AddFiles(s, new_paths, activate) ==
    LET first_new_row == Len(s.tracks) + 1
        s1 == [s EXCEPT !.tracks = @ \o new_paths]
        s2 == IF activate THEN SetCurrentRow(s1, first_new_row)
              ELSE IF s1.current_index = NoIndex /\ s1.tracks # <<>>
              THEN SetCurrentRow(s1, 1)
              ELSE s1
    IN  EnqueuePreload(s2, new_paths)

\* self.playlist.takeItem(row) with the widget's signals blocked: the view
\* moves its current row off the removed item (to the item that followed it,
\* or to the new last one) and emits nothing.
RowAfterTakeItem(row, new_len) ==
    IF new_len = 0 THEN NoIndex ELSE Min(row, new_len)

\* remove_selected_track.  out_a / out_p: how a stopped worker ends.
RemoveSelectedTrack(s, out_a, out_p) ==
    LET row == s.playlist_row
    IN  IF row < 1 \/ row > Len(s.tracks) THEN s
        ELSE
        LET removed == s.tracks[row]
            was_current == s.current_index = row
            s1 == RemoveFromPreloadQueue(s, removed)
            s2 == [s1 EXCEPT !.wave_partial[removed] = NoPartial]
            s3 == IF removed = s2.active_path
                  THEN StopActiveWaveWorker(s2, out_a) ELSE s2
            s4 == IF removed = s3.preload_path
                  THEN StopPreloadWorker(s3, FALSE, out_p) ELSE s3
            trk == OtherPaths(s4.tracks, row)
            s5 == [s4 EXCEPT !.tracks = trk,
                             !.playlist_row = RowAfterTakeItem(row, Len(trk))]
        IN  IF trk = <<>>
            THEN ClearWaveformPlot([s5 EXCEPT !.current_index = NoIndex])
            ELSE IF was_current
            THEN SetCurrentRow(s5, Min(row, Len(trk)))
            ELSE IF s5.current_index # NoIndex /\ row < s5.current_index
            THEN SetCurrentRow([s5 EXCEPT !.current_index = @ - 1],
                               s5.current_index - 1)
            ELSE s5

\* _set_waveform_resolution(points)
SetWaveformResolution(s, requested, out_a, out_p) ==
    LET points == Max(MinPoints, Min(requested, MaxPoints))
    IN  IF points = s.waveform_points THEN s
        ELSE
        LET s1 == [s EXCEPT !.waveform_points = points,
                            !.wave_cache = <<>>,
                            !.wave_partial = [p \in Paths |-> NoPartial]]
            current_path == CurrentTrackPath(s1)
            s2 == StopActiveWaveWorker(s1, out_a)
            s3 == StopPreloadWorker(s2, FALSE, out_p)
        IN  IF current_path # NoPath
            THEN EnqueuePreload(LoadWaveformForTrack(s3, current_path),
                                OtherPaths(s3.tracks, s3.current_index))
            ELSE s3

C10CloseStopsActiveOnly(s, out_a, out_p) ==
    [StopActiveWaveWorker(s, out_a) EXCEPT !.closed = TRUE]

\* closeEvent
CloseEvent(s, out_a, out_p) ==
    LET s1 == StopActiveWaveWorker(s, out_a)
        s2 == StopPreloadWorker(s1, FALSE, out_p)
    IN  [s2 EXCEPT !.closed = TRUE]


\* ------------------------------------------------ audio routing (app.py)
\* Gains are exact fractions num/den in lowest terms (den >= 1).
RECURSIVE GCD(_, _)
GCD(a, b) == IF b = 0 THEN a ELSE GCD(b, a % b)

Frac(n, d) == LET g == GCD(n, d) IN [num |-> n \div g, den |-> d \div g]
FracAdd(a, b) == Frac(a.num * b.den + b.num * a.den, a.den * b.den)
FracDiv(a, b) == Frac(a.num * b.den, a.den * b.num)
FracLeq(a, b) == a.num * b.den <= b.num * a.den
FracZero == Frac(0, 1)
FracOne == Frac(1, 1)

\* np.sum over the gains f[1], ..., f[n] (none of them negative)
RECURSIVE FracSum(_, _)
FracSum(f, n) == IF n = 0 THEN FracZero ELSE FracAdd(FracSum(f, n - 1), f[n])

RoutingModes ==
    {"auto", "stereo", "surround_5_1", "surround_7_1", "immersive_7_1_4"}

\* ROUTING_TARGET_CHANNELS.get(mode, 0)
RoutingTargetChannels(mode) ==
    CASE mode = "stereo" -> 2
      [] mode = "surround_5_1" -> 6
      [] mode = "surround_7_1" -> 8
      [] mode = "immersive_7_1_4" -> 12
      [] OTHER -> 0

\* _default_routing_matrix.  Rows are source channels, columns outputs, both
\* from 1 here (from 0 in the code).
DefaultRoutingMatrix ==
    [r \in 1..RoutingSize |-> [c \in 1..RoutingSize |-> IF r = c THEN 1 ELSE 0]]

\* _routing_matrix_preset(target_channels)
RoutingMatrixPreset(target_channels) ==
    IF target_channels <= 0 THEN DefaultRoutingMatrix
    ELSE LET target == Max(1, Min(RoutingSize, target_channels))
         IN  IF target = 2
             THEN [r \in 1..RoutingSize |-> [c \in 1..RoutingSize |->
                     IF \/ c = 1 /\ (r - 1) \in {0, 2, 4, 6, 8, 10, 3}
                        \/ c = 2 /\ (r - 1) \in {1, 2, 5, 7, 9, 11, 3}
                     THEN 1 ELSE 0]]
             ELSE [r \in 1..RoutingSize |-> [c \in 1..RoutingSize |->
                     IF c - 1 = Min(r - 1, target - 1) THEN 1 ELSE 0]]

\* _routing_matrix_target_channels(matrix): the highest checked column.
RoutingMatrixTargetChannels(matrix) ==
    LET checked == {c \in 1..RoutingSize :
                      \E r \in 1..RoutingSize : matrix[r][c] = 1}
    IN  IF checked = {} THEN 0 ELSE SetMax(checked)

\* _routing_target_channels(mode, matrix_enabled, matrix)
TargetChannels(matrix_enabled, mode, user_matrix) ==
    IF matrix_enabled THEN RoutingMatrixTargetChannels(user_matrix)
    ELSE RoutingTargetChannels(mode)

\* Lines 1044-1047: a source row whose gains sum to more than 1 is divided by
\* the sum.
ScaleRows(matrix) ==
    [r \in 1..Len(matrix) |->
       LET row_sum == FracSum(matrix[r], Len(matrix[r]))
       IN  [c \in 1..Len(matrix[r]) |->
              IF FracLeq(row_sum, FracOne) THEN matrix[r][c]
              ELSE FracDiv(matrix[r][c], row_sum)]]

ColumnOf(matrix, c) == [r \in 1..Len(matrix) |-> matrix[r][c]]

C20KeepColumns(matrix) == matrix

\* Lines 1049-1052: an output column whose gains sum to more than 1 is
\* divided by the sum.
ScaleColumns(matrix) ==
    [r \in 1..Len(matrix) |->
       [c \in 1..Len(matrix[r]) |->
          LET col_sum == FracSum(ColumnOf(matrix, c), Len(matrix))
          IN  IF FracLeq(col_sum, FracOne) THEN matrix[r][c]
              ELSE FracDiv(matrix[r][c], col_sum)]]

C22BuildFillsAndScales(matrix_enabled, mode, user_matrix, source_channels, output_channels) ==
    LET source_count == Max(1, source_channels)
        output_count == Max(1, output_channels)
        base == IF matrix_enabled THEN user_matrix
                ELSE IF mode = "auto" THEN DefaultRoutingMatrix
                ELSE RoutingMatrixPreset(RoutingTargetChannels(mode))
        Checked(src, out) == base[Min(src, Len(base))][out] # 0
        matrix ==
            [src \in 1..source_count |-> [out \in 1..output_count |->
               IF \/ Checked(src, out)
                  \/ /\ \A o \in 1..output_count : ~Checked(src, o)
                     /\ out = Min(src, output_count)
               THEN FracOne ELSE FracZero]]
    IN  ScaleColumns(ScaleRows(matrix))

C21BuildWithoutFallback(matrix_enabled, mode, user_matrix, source_channels, output_channels) ==
    LET source_count == Max(1, source_channels)
        output_count == Max(1, output_channels)
        base == IF matrix_enabled THEN user_matrix
                ELSE IF mode = "auto" THEN DefaultRoutingMatrix
                ELSE RoutingMatrixPreset(RoutingTargetChannels(mode))
        matrix ==
            [src \in 1..source_count |-> [out \in 1..output_count |->
               IF base[Min(src, Len(base))][out] # 0
               THEN FracOne ELSE FracZero]]
    IN  IF matrix_enabled THEN matrix ELSE ScaleColumns(ScaleRows(matrix))

\* _build_runtime_routing_matrix(source_channels, output_channels) under the
\* settings _audio_matrix_enabled, _audio_routing_mode, _audio_routing_matrix.
BuildRuntimeRoutingMatrix(matrix_enabled, mode, user_matrix, source_channels, output_channels) ==
    LET source_count == Max(1, source_channels)
        output_count == Max(1, output_channels)
        base == IF matrix_enabled THEN user_matrix
                ELSE IF mode = "auto" THEN DefaultRoutingMatrix
                ELSE RoutingMatrixPreset(RoutingTargetChannels(mode))
        base_rows == Len(base)
        base_cols == IF base_rows > 0 THEN Len(base[1]) ELSE 0
        SrcBase(src) == Min(src, Max(1, base_rows))
        Checked(src, out) ==
            /\ SrcBase(src) <= base_rows /\ out <= base_cols
            /\ base[SrcBase(src)][out] # 0
        Mapped(src) == \E out \in 1..output_count : Checked(src, out)
        matrix ==
            [src \in 1..source_count |-> [out \in 1..output_count |->
               IF \/ Checked(src, out)
                  \/ /\ ~Mapped(src) /\ ~matrix_enabled
                     /\ out = Min(src, output_count)
               THEN FracOne ELSE FracZero]]
    IN  IF matrix_enabled THEN matrix ELSE ScaleColumns(ScaleRows(matrix))

\* _is_identity_routing(matrix)
IsIdentityRouting(matrix) ==
    /\ Len(matrix) > 0
    /\ \A r \in 1..Len(matrix) :
         /\ Len(matrix[r]) = Len(matrix)
         /\ \A c \in 1..Len(matrix) :
              matrix[r][c] = IF r = c THEN FracOne ELSE FracZero

C19AlwaysProcess(matrix_enabled, mode) == TRUE

C40ProcessUnlessStereo(matrix_enabled, mode) ==
    matrix_enabled \/ mode # "stereo"

\* _routing_requires_processing
RoutingRequiresProcessing(matrix_enabled, mode) ==
    matrix_enabled \/ mode # "auto"

\* _effective_output_channels(source_channels).  device_max is
\* effective_device.maximumChannelCount() of the device _resolve_audio_device
\* returns.
EffectiveOutputChannels(matrix_enabled, mode, user_matrix, source_channels, device_max) ==
    LET source_count == Max(1, source_channels)
        dev == Max(1, device_max)
        target_channels == TargetChannels(matrix_enabled, mode, user_matrix)
        target == IF target_channels <= 0 THEN source_count ELSE target_channels
    IN  IF matrix_enabled THEN Max(2, Min(dev, RoutingSize))
        ELSE Max(1, Min(Max(1, Min(target, RoutingSize)), dev))

\* _resolve_playback_source(source_path).  info_ok: sf.info succeeds; cached:
\* the routed file of this configuration exists already; io_ok: the render
\* does not raise.  returned is "source" for source_path and "routed" for a
\* routed file; rendered tells that a file was written.
ResolvePlaybackSource(matrix_enabled, mode, user_matrix, source_channels, device_max, info_ok, cached, io_ok) ==
    LET output_channels ==
            EffectiveOutputChannels(matrix_enabled, mode, user_matrix,
                                    Max(1, source_channels), device_max)
        runtime_matrix ==
            BuildRuntimeRoutingMatrix(matrix_enabled, mode, user_matrix,
                                      Max(1, source_channels), output_channels)
        none == [returned |-> "source", rendered |-> FALSE,
                 output_channels |-> 0, matrix |-> <<>>]
        probed == [none EXCEPT !.output_channels = output_channels,
                               !.matrix = runtime_matrix]
    IN  IF ~RoutingRequiresProcessing(matrix_enabled, mode) THEN none
        ELSE IF ~info_ok THEN none
        ELSE IF /\ ~matrix_enabled /\ mode = "auto"
                /\ output_channels = Max(1, source_channels)
                /\ IsIdentityRouting(runtime_matrix)
        THEN probed
        ELSE IF cached THEN [probed EXCEPT !.returned = "routed"]
        ELSE IF io_ok THEN [probed EXCEPT !.returned = "routed",
                                          !.rendered = TRUE]
        ELSE [probed EXCEPT !.rendered = TRUE]


\* ------------------------------------------- routed-file cache (app.py)
\* Paths.  A source file is a track of the music directory; the routed file
\* of a cache key is <cache_key>.wav in the routed directory and its
\* temporary file <cache_key>.tmp.wav.  All paths are absolute, so
\* os.path.abspath leaves them as they are.
NoToken == [mode |-> "", enabled |-> FALSE, matrix |-> <<>>, sc |-> 0, oc |-> 0]
NoKey == [sig |-> 0, token |-> NoToken, digest |-> <<>>]
NoSource == [dir |-> "", suffix |-> "", key |-> NoKey, track |-> 0]
SourcePath(track) ==
    [dir |-> "music", suffix |-> ".wav", key |-> NoKey, track |-> track]
RoutedPath(cache_key) ==
    [dir |-> "routed", suffix |-> ".wav", key |-> cache_key, track |-> 0]
TmpPath(cache_key) == [RoutedPath(cache_key) EXCEPT !.suffix = ".tmp.wav"]

\* _file_signature(source_path): size and modification time of the file.
\* The source files of the model differ in them and are not modified.
SourceSignature(source_path) == source_path.track

\* The string of the bits row[1..n], "1" for a checked cell, as the number
\* it spells in base 2.
RECURSIVE RowBits(_, _)
RowBits(row, n) ==
    IF n = 0 THEN 0
    ELSE 2 * RowBits(row, n - 1) + (IF row[n] # 0 THEN 1 ELSE 0)

\* _serialize_routing_matrix(matrix): the rows' bit strings, joined by "|".
SerializeRoutingMatrix(matrix) ==
    [r \in 1..RoutingSize |-> RowBits(matrix[r], RoutingSize)]

\* _clone_routing_matrix(matrix): a 12 x 12 matrix of 0 and 1 from a list of
\* rows of any lengths.
CloneRoutingMatrix(matrix) ==
    [r \in 1..RoutingSize |-> [c \in 1..RoutingSize |->
        IF r <= Len(matrix) /\ c <= Len(matrix[r]) /\ matrix[r][c] # 0
        THEN 1 ELSE 0]]

\* "|".join(rows) for the first n rows: a string is the sequence of its
\* characters.
RECURSIVE JoinRows(_, _)
JoinRows(rows, n) ==
    IF n = 0 THEN <<>>
    ELSE IF n = 1 THEN rows[1]
    ELSE JoinRows(rows, n - 1) \o <<"|">> \o rows[n]

\* _serialize_routing_matrix(matrix) as the string it returns.
SerializeRoutingMatrixText(matrix) ==
    LET safe == CloneRoutingMatrix(matrix)
        rows == [r \in 1..RoutingSize |->
                   [c \in 1..RoutingSize |->
                      IF safe[r][c] # 0 THEN "1" ELSE "0"]]
    IN  JoinRows(rows, RoutingSize)

\* [segment for segment in raw.split("|") if segment]: the text before the
\* first "|" is a segment unless it is empty, and the text after it is
\* split in the same way.
RECURSIVE SplitSegments(_)
SplitSegments(raw) ==
    IF raw = <<>> THEN <<>>
    ELSE LET bars == {i \in 1..Len(raw) : raw[i] = "|"}
             cut == IF bars = {} THEN Len(raw) + 1
                    ELSE CHOOSE i \in bars : \A j \in bars : i <= j
             segment == SubSeq(raw, 1, cut - 1)
         IN  (IF segment = <<>> THEN <<>> ELSE <<segment>>)
               \o SplitSegments(SubSeq(raw, cut + 1, Len(raw)))

C33ParseUncheckedIsDefault(raw) ==
    IF \A i \in 1..Len(raw) : raw[i] # "1" THEN DefaultRoutingMatrix
    ELSE LET rows == SplitSegments(raw)
         IN  [r \in 1..RoutingSize |-> [c \in 1..RoutingSize |->
                 IF r <= Len(rows) /\ c <= Len(rows[r]) /\ rows[r][c] = "1"
                 THEN 1 ELSE 0]]

\* _parse_routing_matrix(raw)
ParseRoutingMatrix(raw) ==
    IF raw = <<>> THEN DefaultRoutingMatrix
    ELSE LET rows == SplitSegments(raw)
         IN  [r \in 1..RoutingSize |-> [c \in 1..RoutingSize |->
                 IF r <= Len(rows) /\ c <= Len(rows[r]) /\ rows[r][c] = "1"
                 THEN 1 ELSE 0]]

\* route_token of _resolve_playback_source
RouteToken(cfg, source_channels, output_channels) ==
    [mode |-> cfg.mode, enabled |-> cfg.matrix_enabled,
     matrix |-> SerializeRoutingMatrix(cfg.user_matrix),
     sc |-> source_channels, oc |-> output_channels]

\* runtime_matrix.tobytes(): the gains row after row, without the shape.
MatrixBytes(runtime_matrix) ==
    LET rows == Len(runtime_matrix)
        cols == Len(runtime_matrix[1])
    IN  [i \in 1..(rows * cols) |->
           runtime_matrix[((i - 1) \div cols) + 1][((i - 1) % cols) + 1]]

\* cache_key: the SHA-1 of signature, token and matrix digest; two keys are
\* equal exactly when the three hashed parts are (no collisions).
CacheKey(file_signature, route_token, matrix_digest) ==
    [sig |-> file_signature, token |-> route_token, digest |-> matrix_digest]

\* The directory is a set of files; whole tells that the file's audio data
\* has been written to its end.
DirFile(path, whole) == [path |-> path, whole |-> whole]
IsFile(dir, path) == \E f \in dir : f.path = path
RemoveFile(dir, path) == {f \in dir : f.path # path}
WriteFile(dir, path, whole) == RemoveFile(dir, path) \cup {DirFile(path, whole)}

\* The routing state as one record.
Rt ==
    [audio_routing |-> audio_routing,
     routed_audio_cache |-> routed_audio_cache,
     session_routed_files |-> session_routed_files,
     routed_dir |-> routed_dir, player_source |-> player_source,
     current_track_path |-> current_track_path]

\* self._routed_audio_cache.get(cache_key, "")
CachedPath(cache, cache_key) ==
    LET hits == {i \in 1..Len(cache) : cache[i].key = cache_key}
    IN  IF hits = {} THEN NoSource ELSE cache[CHOOSE i \in hits : TRUE].path

\* self._routed_audio_cache[cache_key] = routed_path_str: a key the dict
\* holds keeps its place, a new key goes to the end.
CachePut(cache, cache_key, path) ==
    LET hits == {i \in 1..Len(cache) : cache[i].key = cache_key}
        e == [key |-> cache_key, path |-> path]
    IN  IF hits = {} THEN Append(cache, e)
        ELSE [i \in 1..Len(cache) |-> IF i \in hits THEN e ELSE cache[i]]

C24HitWithoutFile(cache, dir, cache_key) ==
    CachedPath(cache, cache_key) # NoSource

\* Lines 1090-1091: the dict holds the key and its file is on disk.
CacheHit(cache, dir, cache_key) ==
    LET cached_path == CachedPath(cache, cache_key)
    IN  cached_path # NoSource /\ IsFile(dir, cached_path)

RemoveAt(seq, i) == [j \in 1..(Len(seq) - 1) |-> IF j < i THEN seq[j] ELSE seq[j + 1]]

C25TrimEvictsOldest(r, max_entries) ==
    IF Len(r.routed_audio_cache) <= Max(1, max_entries) THEN r
    ELSE LET e == r.routed_audio_cache[1]
         IN  [r EXCEPT !.routed_audio_cache = Tail(@),
                       !.routed_dir = RemoveFile(@, e.path),
                       !.session_routed_files = @ \ {e.path}]

C26TrimKeepsFiles(r, max_entries) ==
    LET current == r.player_source
        kept == SelectSeq(r.routed_audio_cache,
                          LAMBDA e : current # NoSource /\ e.path = current)
    IN  IF Len(r.routed_audio_cache) <= Max(1, max_entries) THEN r
        ELSE [r EXCEPT !.routed_audio_cache = kept]

\* _trim_routed_audio_cache(max_entries)
RECURSIVE TrimRoutedAudioCache(_, _)
TrimRoutedAudioCache(r, max_entries) ==
    LET cache == r.routed_audio_cache
        current_source_abs == r.player_source
        deletable ==
            {i \in 1..Len(cache) :
               ~(current_source_abs # NoSource
                 /\ cache[i].path = current_source_abs)}
    IN  IF Len(cache) <= Max(1, max_entries) \/ deletable = {} THEN r
        ELSE LET i == CHOOSE d \in deletable : \A o \in deletable : d <= o
                 delete_path == cache[i].path
             IN  TrimRoutedAudioCache(
                     [r EXCEPT !.routed_audio_cache = RemoveAt(cache, i),
                               !.routed_dir = RemoveFile(@, delete_path),
                               !.session_routed_files = @ \ {delete_path}],
                     max_entries)

\* How a render can end: "ok"; "open": a file cannot be opened, nothing is
\* written; "write": a read, the matrix product or a write raises in the
\* middle of the data; "replace": os.replace raises.
RenderOutcomes == {"ok", "open", "write", "replace"}

C27RenderInPlace(dir, cache_key, io) ==
    LET final == RoutedPath(cache_key)
    IN  CASE io = "ok" ->
               [ok |-> TRUE,
                trace |-> <<WriteFile(dir, final, FALSE),
                            WriteFile(dir, final, TRUE)>>]
          [] io = "open" -> [ok |-> FALSE, trace |-> <<dir>>]
          [] OTHER ->
               [ok |-> FALSE, trace |-> <<WriteFile(dir, final, FALSE)>>]

\* Lines 1102-1136 of _resolve_playback_source: the render into
\* <cache_key>.tmp.wav, os.replace onto <cache_key>.wav, and the except
\* branch that unlinks the temporary file.  trace is the directory after each
\* step; its last element is the directory the render leaves.
RenderRoutedFile(dir, cache_key, io) ==
    LET tmp_path == TmpPath(cache_key)
        opened == WriteFile(dir, tmp_path, FALSE)
        written == WriteFile(dir, tmp_path, TRUE)
        replaced == WriteFile(RemoveFile(dir, tmp_path),
                              RoutedPath(cache_key), TRUE)
        unlinked == RemoveFile(dir, tmp_path)
    IN  CASE io = "ok" ->
               [ok |-> TRUE, trace |-> <<opened, written, replaced>>]
          [] io = "open" -> [ok |-> FALSE, trace |-> <<dir, unlinked>>]
          [] io = "write" -> [ok |-> FALSE, trace |-> <<opened, unlinked>>]
          [] OTHER ->
               [ok |-> FALSE, trace |-> <<opened, written, unlinked>>]

\* Lines 1088-1136 of _resolve_playback_source: the cache key is computed.
\* keyed: a cache key was computed; rendered: the render was started.
ResolveKeyed(r, source_path, cache_key, io) ==
    LET cached_path == CachedPath(r.routed_audio_cache, cache_key)
        routed_path == RoutedPath(cache_key)
        stored(dir) ==
            TrimRoutedAudioCache(
                [r EXCEPT !.routed_dir = dir,
                          !.routed_audio_cache = CachePut(@, cache_key, routed_path),
                          !.session_routed_files = @ \cup {routed_path}],
                RoutedCacheLimit)
        render == RenderRoutedFile(r.routed_dir, cache_key, io)
        left == render.trace[Len(render.trace)]
        hit == [state |-> r, returned |-> source_path, keyed |-> TRUE,
                rendered |-> FALSE, key |-> cache_key,
                trace |-> <<r.routed_dir>>]
    IN  IF CacheHit(r.routed_audio_cache, r.routed_dir, cache_key)
        THEN [hit EXCEPT !.returned = cached_path]
        ELSE IF IsFile(r.routed_dir, routed_path)
        THEN [hit EXCEPT !.state = stored(r.routed_dir),
                         !.returned = routed_path,
                         !.trace = <<stored(r.routed_dir).routed_dir>>]
        ELSE IF render.ok
        THEN [hit EXCEPT !.state = stored(left), !.returned = routed_path,
                         !.rendered = TRUE,
                         !.trace = Append(render.trace, stored(left).routed_dir)]
        ELSE [hit EXCEPT !.state = [r EXCEPT !.routed_dir = left],
                         !.rendered = TRUE, !.trace = render.trace]

\* Lines 1065-1087: the output channels and the runtime matrix are computed.
ResolveMatrix(r, source_path, channels, output_channels, runtime_matrix, info_ok, io) ==
    LET cfg == r.audio_routing
        through == [state |-> r, returned |-> source_path, keyed |-> FALSE,
                    rendered |-> FALSE, key |-> NoKey,
                    trace |-> <<r.routed_dir>>]
    IN  IF ~RoutingRequiresProcessing(cfg.matrix_enabled, cfg.mode)
        THEN through
        ELSE IF ~info_ok THEN through
        ELSE IF /\ ~cfg.matrix_enabled /\ cfg.mode = "auto"
                /\ output_channels = channels
                /\ IsIdentityRouting(runtime_matrix)
        THEN through
        ELSE ResolveKeyed(r, source_path,
                          CacheKey(SourceSignature(source_path),
                                   RouteToken(cfg, channels, output_channels),
                                   MatrixBytes(runtime_matrix)),
                          io)

\* _resolve_playback_source(source_path) with its effect on the cache, the
\* session set and the directory.
ResolveRouted(r, source_path, source_channels, device_max, info_ok, io) ==
    LET cfg == r.audio_routing
        channels == Max(1, source_channels)
    IN  ResolveMatrix(
            r, source_path, channels,
            EffectiveOutputChannels(cfg.matrix_enabled, cfg.mode,
                                    cfg.user_matrix, channels, device_max),
            BuildRuntimeRoutingMatrix(
                cfg.matrix_enabled, cfg.mode, cfg.user_matrix, channels,
                EffectiveOutputChannels(cfg.matrix_enabled, cfg.mode,
                                        cfg.user_matrix, channels, device_max)),
            info_ok, io)

C28CleanupClearsSet(r) == [r EXCEPT !.session_routed_files = {}]

\* _cleanup_session_routed_files
CleanupSessionRoutedFiles(r) ==
    LET current_source_abs == r.player_source
        skipped(path) == current_source_abs # NoSource /\ path = current_source_abs
        removed == {path \in r.session_routed_files : ~skipped(path)}
    IN  [r EXCEPT !.routed_dir = {f \in @ : f.path \notin removed},
                  !.session_routed_files = @ \ removed]

\* self.player.setSource(...) with what resolve returned.
SetSource(res) == [res EXCEPT !.state.player_source = res.returned]

\* Lines 3366-3377 of load_track: the row is current; when sf.info succeeds
\* the player gets the resolved source, when it raises the player is left as
\* it is.
LoadTrackSource(r, path, channels, device_max, load_ok, info_ok, io) ==
    LET r1 == [r EXCEPT !.current_track_path = path]
    IN  IF ~load_ok
        THEN [state |-> r1, returned |-> NoSource, keyed |-> FALSE,
              rendered |-> FALSE, key |-> NoKey, trace |-> <<r.routed_dir>>]
        ELSE SetSource(ResolveRouted(r1, path, channels, device_max,
                                     info_ok, io))

\* Lines 1383-1391 of _refresh_current_playback_source: the source is set
\* unless the player has it already.
RefreshSource(r, res) ==
    LET desired_source == res.returned
        current_source == r.player_source
    IN  IF current_source # NoSource /\ desired_source = current_source
        THEN res
        ELSE SetSource(res)

\* _refresh_current_playback_source
RefreshCurrentPlaybackSource(r, channels, device_max, info_ok, io) ==
    LET track_path == r.current_track_path
    IN  IF track_path = NoSource
        THEN [state |-> r, returned |-> NoSource, keyed |-> FALSE,
              rendered |-> FALSE, key |-> NoKey, trace |-> <<r.routed_dir>>]
        ELSE RefreshSource(r, ResolveRouted(r, track_path, channels,
                                            device_max, info_ok, io))

\* No override: the settings of a first start.
AutoRouting ==
    [matrix_enabled |-> FALSE, mode |-> "auto",
     user_matrix |-> DefaultRoutingMatrix]

\* The routing step before the first one.
NoRoutedHist ==
    [op |-> "-", files |-> 0, extras |-> 0, track |-> NoSource,
     info_ok |-> TRUE, io |-> "ok", returned |-> NoSource, keyed |-> FALSE,
     rendered |-> FALSE, key |-> NoKey, trace |-> <<>>,
     before |-> [audio_routing |-> AutoRouting, routed_audio_cache |-> <<>>,
                 session_routed_files |-> {}, routed_dir |-> {},
                 player_source |-> NoSource, current_track_path |-> NoSource],
     order |-> <<>>, evicted |-> <<>>, expected |-> <<>>]


\* ================================================================ actions
\* The model's bounds, as a guard on the state a step leads to.  A step that
\* follows closeEvent may start MaxJobsClosed jobs more, so that what the
\* callbacks delivered after it start is seen.
Within(t) ==
    /\ IF closed
       THEN t.active_request_id + t.preload_request_id
              <= MaxJobs + MaxJobsClosed
       ELSE t.active_request_id + t.preload_request_id <= MaxJobs
    /\ Cardinality({w \in t.workers : w.cancelled}) <= MaxAbandoned
    /\ Len(t.events) <= MaxEvents

Step(op, path) ==
    [op |-> op, slot |-> "-", rid |-> 0, path |-> path,
     accepted |-> FALSE, warned |-> FALSE]

Delivered(m, accepted, t) ==
    [op |-> m.kind, slot |-> m.slot, rid |-> m.rid, path |-> m.path,
     accepted |-> accepted, warned |-> t.warned]

Range(f) == {f[i] : i \in DOMAIN f}

\* No computation has run.
NoCalc == [op |-> "-"]

\* wave_cache's history before the first call.
NoCacheHist ==
    [op |-> "-", path |-> NoPath, hit |-> FALSE, use |-> <<>>,
     evicted |-> NoPath, lru |-> NoPath, uses |-> 0, evictions |-> 0]

\* Lists of distinct paths of length 1..n.
DistinctLists(n) ==
    UNION {{f \in [1..k -> Paths] : \A i, j \in 1..k : i # j => f[i] # f[j]}
           : k \in 1..n}

\* Paths are interchangeable names: a path that was never in the playlist
\* enters it under the smallest unused number.
IntroducedInOrder(new_paths, k) ==
    LET fresh == SelectSeq(new_paths, LAMBDA p : p > k)
    IN  \A i \in 1..Len(fresh) : fresh[i] = k + i

SchedulerInit ==
    /\ tracks = <<>>
    /\ current_index = NoIndex
    /\ playlist_row = NoIndex
    /\ waveform_points = DefaultPoints
    /\ file_sig = [p \in Paths |-> 1]
    /\ wave_cache = <<>>
    /\ wave_partial = [p \in Paths |-> NoPartial]
    /\ preload_queue = <<>>
    /\ preload_set = {}
    /\ active_request_id = 0
    /\ active_thread = NoThread
    /\ active_path = NoPath
    /\ active_signature = NoSig
    /\ active_failed = FALSE
    /\ preload_request_id = 0
    /\ preload_thread = NoThread
    /\ preload_path = NoPath
    /\ preload_signature = NoSig
    /\ display = ClearDisplay
    /\ workers = {}
    /\ events = <<>>
    /\ closed = FALSE
    /\ cancel_called = {}
    /\ known = 0
    /\ file_changes = 0
    /\ last = Step("init", NoPath)
    /\ advanced = <<>>
    /\ failed_jobs = {}
    /\ cache_hist = NoCacheHist
    /\ calc = NoCalc

\* Lines 533-536 and 560-561 of __init__; the settings are those of the last
\* run (_load_preferences).
RoutingInit(settings) ==
    /\ audio_routing \in settings
    /\ routed_audio_cache = <<>>
    /\ session_routed_files = {}
    /\ routed_dir = {}
    /\ player_source = NoSource
    /\ current_track_path = NoSource
    /\ routed_hist = NoRoutedHist

Init == SchedulerInit /\ RoutingInit({AutoRouting})

\* ---- the user, on the main thread
AddFilesStep(limit) ==
    /\ ~closed
    /\ Len(tracks) < limit
    /\ \E new_paths \in DistinctLists(limit - Len(tracks)) :
       \E activate \in BOOLEAN :
         /\ \A i \in 1..Len(new_paths) :
               /\ ~FileMissing(St, new_paths[i])
               /\ new_paths[i] \notin Range(tracks)
         /\ IntroducedInOrder(new_paths, known)
         /\ LET t == AddFiles(St, new_paths, activate)
                k == known + Len(SelectSeq(new_paths, LAMBDA p : p > known))
            IN  /\ k <= limit
                /\ Within(t)
                /\ Apply([t EXCEPT !.known = k], Step("add_files", new_paths[1]))

UserAddFiles == AddFilesStep(ShortPlaylist)

\* The same with a longer playlist.
UserAddManyFiles == AddFilesStep(NumPaths)

\* A click in the playlist, next_track, previous_track: setCurrentRow(row).
UserSelectRow ==
    /\ ~closed
    /\ \E row \in 1..Len(tracks) :
         /\ row # playlist_row
         /\ LET t == SetCurrentRow(St, row)
            IN  Within(t) /\ Apply(t, Step("load_track", tracks[row]))

UserRemoveSelectedTrack ==
    /\ ~closed
    /\ playlist_row >= 1 /\ playlist_row <= Len(tracks)
    /\ \E out_a \in OutcomesOfStop(St, "A"), out_p \in OutcomesOfStop(St, "P") :
         LET t == RemoveSelectedTrack(St, out_a, out_p)
         IN  Within(t) /\ Apply(t, Step("remove", tracks[playlist_row]))

UserSetWaveformResolution ==
    /\ ~closed
    /\ \E points \in Resolutions : \E out_a \in OutcomesOfStop(St, "A"), out_p \in OutcomesOfStop(St, "P") :
         /\ points # waveform_points
         /\ LET t == SetWaveformResolution(St, points, out_a, out_p)
            IN  Within(t) /\ Apply(t, Step("resolution", CurrentTrackPath(St)))

UserClose ==
    /\ ~closed
    /\ \E out_a \in OutcomesOfStop(St, "A"), out_p \in OutcomesOfStop(St, "P") :
         LET t == CloseEvent(St, out_a, out_p)
         IN  Within(t) /\ Apply(t, Step("close", NoPath))

\* ---- the main thread's event loop takes the next posted signal
DeliverProgress ==
    /\ events # <<>>
    /\ Head(events).kind = "progress"
    /\ \E suppress \in BOOLEAN :
         LET m == Head(events)
             s0 == [St EXCEPT !.events = Tail(@)]
             t == IF m.slot = "A" THEN OnActiveWaveProgress(s0, m, suppress)
                  ELSE OnPreloadProgress(s0, m, suppress)
             acc == IF m.slot = "A" THEN ActiveAccepts(s0, m)
                    ELSE PreloadAccepts(s0, m)
         IN  Within(t) /\ Apply(t, Delivered(m, acc, t))

DeliverResult ==
    /\ events # <<>>
    /\ Head(events).kind = "result"
    /\ LET m == Head(events)
           s0 == [St EXCEPT !.events = Tail(@)]
           t == IF m.slot = "A" THEN OnActiveWaveFinished(s0, m)
                ELSE OnPreloadFinished(s0, m)
           acc == IF m.slot = "A" THEN ActiveAccepts(s0, m)
                  ELSE PreloadAccepts(s0, m)
       IN  Within(t) /\ Apply(t, Delivered(m, acc, t))

DeliverError ==
    /\ events # <<>>
    /\ Head(events).kind = "error"
    /\ LET m == Head(events)
           s0 == [St EXCEPT !.events = Tail(@)]
           t == IF m.slot = "A" THEN OnActiveWaveFailed(s0, m)
                ELSE OnPreloadFailed(s0, m)
           acc == IF m.slot = "A" THEN ActiveAccepts(s0, m)
                  ELSE PreloadAccepts(s0, m)
       IN  Within(t) /\ Apply(t, Delivered(m, acc, t))

DeliverThreadFinished ==
    /\ events # <<>>
    /\ Head(events).kind = "finished"
    /\ LET m == Head(events)
           s0 == [St EXCEPT !.events = Tail(@)]
           t == IF m.slot = "A" THEN OnActiveWaveThreadFinished(s0, m)
                ELSE OnPreloadWaveThreadFinished(s0, m)
           acc == IF m.slot = "A" THEN m.rid = s0.active_request_id
                  ELSE m.rid = s0.preload_request_id
       IN  Within(t) /\ Apply(t, Delivered(m, acc, t))

\* ---- a worker thread (WaveformJob.run)
WorkerStep(w, w2, posted) ==
    LET t == [St EXCEPT !.workers = (@ \ {w}) \cup w2,
                        !.events = @ \o posted]
    IN  Within(t) /\ Apply(t, last)

PendingTicks(w) ==
    Len(SelectSeq(events, LAMBDA m : m.kind = "progress" /\ m.slot = w.slot
                                     /\ m.rid = w.rid))

\* Line 74 passed, audio_file.read returned frames, and lines 88-93 emit a
\* progress tick: emit_progress is set and the interval has elapsed.
WorkerProgressTick ==
    \E w \in workers :
        /\ ~w.cancelled /\ w.emit
        /\ PendingTicks(w) < MaxPendingTicks
        /\ WorkerStep(w, {w}, <<Msg("progress", w, TotalBins)>>)

\* The read returns no frames (or the header says the file is empty, line
\* 58), line 95 finds _cancelled unset, line 98 emits resultReady, run()
\* returns and the QThread emits finished.
WorkerEmitResult ==
    \E w \in workers :
        /\ ~w.cancelled
        /\ WorkerStep(w, {}, RunOut(w, "result"))

\* sf.info or a read raises, line 100 finds _cancelled unset, line 101 emits
\* errorRaised, run() returns and the QThread emits finished.
WorkerEmitError ==
    \E w \in workers :
        /\ ~w.cancelled
        /\ WorkerStep(w, {}, RunOut(w, "error"))

\* A worker that outlived the wait bound of its stop ends.
WorkerEndsCancelled ==
    \E w \in workers : \E outcome \in EndOutcomes :
        /\ w.cancelled
        /\ WorkerStep(w, {}, RunOut(w, outcome))

\* run() ends with neither resultReady nor errorRaised although cancel() was
\* not called: an exit that "except Exception" (line 99) does not catch.
WorkerAbort ==
    \E w \in workers :
        /\ ~w.cancelled
        /\ WorkerStep(w, {}, RunOut(w, "quiet"))

\* ---- the file system: a file is deleted (0) or rewritten (another size or
\* mtime).  The scheduler reads a file's signature when the file is requested,
\* and compares it with what it holds about the file: the files that change
\* are those it holds something about (cache, partial, slot or queue).
Recorded(p) ==
    \/ CachePos(wave_cache, p) # 0
    \/ wave_partial[p] # NoPartial
    \/ p \in {active_path, preload_path}
    \/ p \in preload_set

FileChange ==
    /\ file_changes < MaxFileChanges
    /\ \E p \in Paths : \E v \in 0..(MaxFileChanges + 1) :
        /\ Recorded(p)
        /\ v # file_sig[p]
        /\ Apply([St EXCEPT !.file_sig[p] = v, !.file_changes = @ + 1], last)

Next ==
    \/ UserAddFiles
    \/ UserSelectRow
    \/ UserRemoveSelectedTrack
    \/ UserSetWaveformResolution
    \/ UserClose
    \/ DeliverProgress
    \/ DeliverResult
    \/ DeliverError
    \/ DeliverThreadFinished
    \/ WorkerProgressTick
    \/ WorkerEmitResult
    \/ WorkerEmitError
    \/ WorkerEndsCancelled

\* The scheduler over files that stay as they are while the program runs.
Spec == Init /\ [][Next]_vars

\* The scheduler over files that are rewritten or deleted meanwhile, at one
\* waveform resolution and until the window is closed.
NextFiles ==
    \/ UserAddFiles
    \/ UserSelectRow
    \/ UserRemoveSelectedTrack
    \/ DeliverProgress
    \/ DeliverResult
    \/ DeliverError
    \/ DeliverThreadFinished
    \/ WorkerProgressTick
    \/ WorkerEmitResult
    \/ WorkerEmitError
    \/ WorkerEndsCancelled
    \/ FileChange

SpecFiles == Init /\ [][NextFiles]_vars

\* The scheduler with a longer playlist, at one waveform resolution and
\* until the window is closed.
NextLong ==
    \/ UserAddManyFiles
    \/ UserSelectRow
    \/ UserRemoveSelectedTrack
    \/ DeliverProgress
    \/ DeliverResult
    \/ DeliverError
    \/ DeliverThreadFinished
    \/ WorkerProgressTick
    \/ WorkerEmitResult
    \/ WorkerEmitError
    \/ WorkerEndsCancelled

SpecLong == Init /\ [][NextLong]_vars

\* The scheduler with worker threads that can end without a signal.
NextAbort ==
    \/ Next
    \/ WorkerAbort

SpecAbort == Init /\ [][NextAbort]_vars

\* The scheduler where tracks are only added and selected and every job ends
\* with its result: more jobs and file changes fit in, and with them the
\* queues that _start_next_preload finds.
WithinPreload(t) ==
    /\ t.active_request_id + t.preload_request_id <= MaxPreloadJobs
    /\ Len(t.events) <= MaxEvents

PreloadAddFiles ==
    /\ Len(tracks) < ShortPlaylist
    /\ \E new_paths \in DistinctLists(ShortPlaylist - Len(tracks)) :
       \E activate \in BOOLEAN :
         /\ \A i \in 1..Len(new_paths) :
               /\ ~FileMissing(St, new_paths[i])
               /\ new_paths[i] \notin Range(tracks)
         /\ IntroducedInOrder(new_paths, known)
         /\ LET t == AddFiles(St, new_paths, activate)
                k == known + Len(SelectSeq(new_paths, LAMBDA p : p > known))
            IN  /\ k <= ShortPlaylist
                /\ WithinPreload(t)
                /\ Apply([t EXCEPT !.known = k], Step("add_files", new_paths[1]))

PreloadSelectRow ==
    \E row \in 1..Len(tracks) :
        /\ row # playlist_row
        /\ LET t == SetCurrentRow(St, row)
           IN  WithinPreload(t) /\ Apply(t, Step("load_track", tracks[row]))

PreloadDeliverResult ==
    /\ events # <<>>
    /\ Head(events).kind = "result"
    /\ LET m == Head(events)
           s0 == [St EXCEPT !.events = Tail(@)]
           t == IF m.slot = "A" THEN OnActiveWaveFinished(s0, m)
                ELSE OnPreloadFinished(s0, m)
           acc == IF m.slot = "A" THEN ActiveAccepts(s0, m)
                  ELSE PreloadAccepts(s0, m)
       IN  WithinPreload(t) /\ Apply(t, Delivered(m, acc, t))

PreloadDeliverThreadFinished ==
    /\ events # <<>>
    /\ Head(events).kind = "finished"
    /\ LET m == Head(events)
           s0 == [St EXCEPT !.events = Tail(@)]
           t == IF m.slot = "A" THEN OnActiveWaveThreadFinished(s0, m)
                ELSE OnPreloadWaveThreadFinished(s0, m)
           acc == IF m.slot = "A" THEN m.rid = s0.active_request_id
                  ELSE m.rid = s0.preload_request_id
       IN  WithinPreload(t) /\ Apply(t, Delivered(m, acc, t))

PreloadWorkerEmitResult ==
    \E w \in workers :
        LET t == [St EXCEPT !.workers = @ \ {w},
                            !.events = @ \o RunOut(w, "result")]
        IN  WithinPreload(t) /\ Apply(t, last)

PreloadFileChange ==
    /\ file_changes < MaxPreloadFileChanges
    /\ \E p \in Paths : \E v \in 0..MaxPreloadFileChanges :
        /\ Recorded(p)
        /\ v # file_sig[p]
        /\ Apply([St EXCEPT !.file_sig[p] = v, !.file_changes = @ + 1], last)

NextPreload ==
    \/ PreloadAddFiles
    \/ PreloadSelectRow
    \/ PreloadDeliverResult
    \/ PreloadDeliverThreadFinished
    \/ PreloadWorkerEmitResult
    \/ PreloadFileChange

SpecPreload == Init /\ [][NextPreload]_vars

\* The scheduler in runs that are followed to their end.  Only what the user
\* does is bounded: a user's step may not bring the jobs started so far and
\* the queued paths above MaxFairJobs.  A delivery pops the queue for every
\* job it starts, so no delivery is ever held back, and a path that stays
\* queued stays so because of the program.  A worker's last signals wait
\* until the event queue has room for them, which it has again once the
\* main thread has taken what is queued.  Workers post no progress ticks,
\* and a file that was removed from the playlist is not added again.
FairWithin(t) ==
    /\ t.active_request_id + t.preload_request_id + Len(t.preload_queue)
         <= MaxFairJobs
    /\ Cardinality({w \in t.workers : w.cancelled}) <= MaxAbandoned
    /\ Len(t.events) <= MaxEvents

FairAddFiles ==
    /\ ~closed
    /\ Len(tracks) < ShortPlaylist
    /\ \E new_paths \in DistinctLists(ShortPlaylist - Len(tracks)) :
       \E activate \in BOOLEAN :
         /\ \A i \in 1..Len(new_paths) :
               /\ ~FileMissing(St, new_paths[i])
               /\ new_paths[i] > known
         /\ IntroducedInOrder(new_paths, known)
         /\ LET t == AddFiles(St, new_paths, activate)
                k == known + Len(SelectSeq(new_paths, LAMBDA p : p > known))
            IN  /\ k <= ShortPlaylist
                /\ FairWithin(t)
                /\ Apply([t EXCEPT !.known = k], Step("add_files", new_paths[1]))

FairSelectRow ==
    /\ ~closed
    /\ \E row \in 1..Len(tracks) :
         /\ row # playlist_row
         /\ LET t == SetCurrentRow(St, row)
            IN  FairWithin(t) /\ Apply(t, Step("load_track", tracks[row]))

FairRemoveSelectedTrack ==
    /\ ~closed
    /\ known - Len(tracks) < MaxFairRemoved
    /\ playlist_row >= 1 /\ playlist_row <= Len(tracks)
    /\ \E out_a \in OutcomesOfStop(St, "A"), out_p \in OutcomesOfStop(St, "P") :
         LET t == RemoveSelectedTrack(St, out_a, out_p)
         IN  FairWithin(t) /\ Apply(t, Step("remove", tracks[playlist_row]))

FairClose ==
    /\ ~closed
    /\ \E out_a \in OutcomesOfStop(St, "A"), out_p \in OutcomesOfStop(St, "P") :
         LET t == CloseEvent(St, out_a, out_p)
         IN  FairWithin(t) /\ Apply(t, Step("close", NoPath))

\* The main thread's event loop takes the next posted signal.
FairDeliver ==
    /\ events # <<>>
    /\ LET m == Head(events)
           s0 == [St EXCEPT !.events = Tail(@)]
           t == CASE m.kind = "result" ->
                       (IF m.slot = "A" THEN OnActiveWaveFinished(s0, m)
                        ELSE OnPreloadFinished(s0, m))
                  [] m.kind = "error" ->
                       (IF m.slot = "A" THEN OnActiveWaveFailed(s0, m)
                        ELSE OnPreloadFailed(s0, m))
                  [] OTHER ->
                       (IF m.slot = "A" THEN OnActiveWaveThreadFinished(s0, m)
                        ELSE OnPreloadWaveThreadFinished(s0, m))
           acc == IF m.kind = "finished"
                  THEN (IF m.slot = "A" THEN m.rid = s0.active_request_id
                        ELSE m.rid = s0.preload_request_id)
                  ELSE (IF m.slot = "A" THEN ActiveAccepts(s0, m)
                        ELSE PreloadAccepts(s0, m))
       IN  Apply(t, Delivered(m, acc, t))

\* run() of a worker ends: with its result or an error, or as EndOutcomes
\* says once cancel() has been called.
FairWorkerEnds ==
    \E w \in workers :
        \E outcome \in (IF w.cancelled THEN EndOutcomes ELSE {"result", "error"}) :
            /\ Len(events) + Len(RunOut(w, outcome)) <= MaxEvents
            /\ ApplyState([St EXCEPT !.workers = @ \ {w},
                                     !.events = @ \o RunOut(w, outcome)], last)
            /\ failed_jobs' = IF outcome = "error"
                              THEN failed_jobs \cup {w.path} ELSE failed_jobs
            /\ UNCHANGED <<cache_hist, calc, routing_vars>>

NextFair ==
    \/ FairAddFiles
    \/ FairSelectRow
    \/ FairRemoveSelectedTrack
    \/ FairClose
    \/ FairDeliver
    \/ FairWorkerEnds

\* Every started worker ends and every posted signal is delivered: run()
\* reads a file of finite length, and the main thread's event loop takes
\* the queued signals in turn.
SpecFair ==
    Init /\ [][NextFair]_vars /\ WF_vars(FairDeliver) /\ WF_vars(FairWorkerEnds)


\* ---- wave_cache on its own: any sequence of _cache_store, _cache_get and
\* wave_cache.clear() calls, over one file more than the cache holds.
CachePaths == 1..(WaveCacheLimit + MaxEvicted)
CacheSigs == {<<1, DefaultPoints>>, <<2, DefaultPoints>>}

Without(seq, path) == SelectSeq(seq, LAMBDA p : p # path)

\* Files the cache holds nothing about are interchangeable: the one that is
\* stored or looked up next is the one with the smallest name.
NextUncached(cache) ==
    LET held == {cache[i].path : i \in 1..Len(cache)}
    IN  CHOOSE p \in CachePaths :
            p \notin held /\ \A q \in 1..(p - 1) : q \in held

CacheStep(cache, hist, known_paths) ==
    /\ wave_cache' = cache
    /\ cache_hist' = hist
    /\ known' = known_paths
    /\ UNCHANGED <<tracks, current_index, playlist_row, waveform_points,
                   file_sig, wave_partial, preload_queue, preload_set,
                   active_request_id, active_thread, active_path,
                   active_signature, active_failed, preload_request_id,
                   preload_thread, preload_path, preload_signature, display,
                   workers, events, closed, cancel_called, file_changes, last,
                   advanced, failed_jobs, calc, routing_vars>>

CachedPaths(cache) == {cache[i].path : i \in 1..Len(cache)}

\* _cache_store(path, signature, ...).  Storing a cached file again is a use.
CacheStoreStep ==
    LET fresh == NextUncached(wave_cache)
    IN  \E path \in CachedPaths(wave_cache) \cup {fresh} :
        \E signature \in CacheSigs :
        LET cached == path # fresh
            cache == CacheStore(wave_cache, path, signature, "-", 0)
            used == Append(Without(cache_hist.use, path), path)
            gone == Range(used) \ CachedPaths(cache)
            evicted == IF gone = {} THEN NoPath ELSE CHOOSE p \in gone : TRUE
        IN  /\ cached => cache_hist.uses < MaxCacheUses
            /\ ~cached => signature = <<1, DefaultPoints>>
            /\ gone # {} => cache_hist.evictions < MaxEvicted
            /\ CacheStep(cache,
                         [op |-> "store", path |-> path, hit |-> cached,
                          use |-> SelectSeq(used, LAMBDA p : p \notin gone),
                          evicted |-> evicted,
                          lru |-> IF gone = {} THEN NoPath
                                  ELSE Head(cache_hist.use),
                          uses |-> IF cached THEN cache_hist.uses + 1
                                   ELSE cache_hist.uses,
                          evictions |-> IF gone = {} THEN cache_hist.evictions
                                        ELSE cache_hist.evictions + 1],
                         known)

\* _cache_get(path, signature): a hit is a use of the entry.
CacheGetStep ==
    LET fresh == NextUncached(wave_cache)
    IN  \E path \in CachedPaths(wave_cache) \cup {fresh} :
        \E signature \in CacheSigs :
        LET hit == CacheGet(wave_cache, path, signature)
        IN  /\ cache_hist.uses < MaxCacheUses
            /\ CacheStep(wave_cache,
                         [cache_hist EXCEPT
                            !.op = "get", !.path = path, !.hit = hit,
                            !.use = IF hit THEN Append(Without(@, path), path)
                                    ELSE @,
                            !.evicted = NoPath, !.lru = NoPath,
                            !.uses = @ + 1],
                         known)

\* self.wave_cache.clear() of _set_waveform_resolution
CacheClearStep ==
    /\ wave_cache # <<>>
    /\ cache_hist.uses < MaxCacheUses
    /\ CacheStep(<<>>,
                 [cache_hist EXCEPT
                    !.op = "clear", !.path = NoPath, !.hit = FALSE,
                    !.use = <<>>, !.evicted = NoPath, !.lru = NoPath,
                    !.uses = @ + 1],
                 known)

NextCache ==
    \/ CacheStoreStep
    \/ CacheGetStep
    \/ CacheClearStep

SpecCache == Init /\ [][NextCache]_vars


\* ---- the bin count of a job on its own: lines 64-65 of WaveformJob.run for
\* a file of total_frames >= 1 frames and a job of points >= 1.
BinsStep ==
    \E total_frames \in 1..MaxFrameCount : \E points \in 1..MaxTargetBins :
        LET bucket == BucketSize(total_frames, points)
        IN  /\ calc' = [op |-> "bins", total_frames |-> total_frames,
                        points |-> points, bucket |-> bucket,
                        bins |-> BinCount(total_frames, bucket)]
            /\ UNCHANGED <<scheduler_vars, routing_vars>>

NextBins == BinsStep

SpecBins == Init /\ [][NextBins]_vars


\* ---- the decimation of a job on its own: one run of WaveformJob.run on a
\* file whose data has the frames and channels its header tells, read in
\* chunks of any size.
Samples == (0 - MaxSample)..MaxSample

\* Lines 53-72: the header is read, bucket and bins computed, amp zeroed.  A
\* file without frames gives its result at once (lines 58-62).
DecodeOpen ==
    /\ calc = NoCalc
    /\ \E ch \in 1..MaxChannels : \E n \in 0..MaxDecodeFrames :
       \E samples \in [1..n -> [1..ch -> Samples]] :
       \E points \in 1..MaxDecodePoints :
         LET bucket == BucketSize(n, points)
             bins == IF n <= 0 THEN 1 ELSE BinCount(n, bucket)
         IN  /\ calc' = [op |-> "decode", samples |-> samples,
                         channels |-> ch, points |-> points,
                         bucket |-> bucket, bins |-> bins, frame_pos |-> 0,
                         amp |-> [b \in 1..bins |-> [c \in 1..ch |-> 0]],
                         done |-> n <= 0]
             /\ UNCHANGED <<scheduler_vars, routing_vars>>

\* Lines 75-86: audio_file.read returns the next frame_count >= 1 frames.
DecodeRead ==
    /\ calc.op = "decode" /\ ~calc.done
    /\ \E frame_count \in 1..(Len(calc.samples) - calc.frame_pos) :
         /\ calc' = [calc EXCEPT
                        !.amp = AfterChunk(@, calc.samples, calc.frame_pos,
                                           frame_count, calc.bucket, calc.bins),
                        !.frame_pos = @ + frame_count]
         /\ UNCHANGED <<scheduler_vars, routing_vars>>

\* Lines 75-77 and 98: the read returns no frame, the loop ends and the
\* result is emitted.
DecodeEnd ==
    /\ calc.op = "decode" /\ ~calc.done
    /\ calc.frame_pos = Len(calc.samples)
    /\ calc' = [calc EXCEPT !.done = TRUE]
    /\ UNCHANGED <<scheduler_vars, routing_vars>>

NextDecode ==
    \/ DecodeOpen
    \/ DecodeRead
    \/ DecodeEnd

SpecDecode == Init /\ [][NextDecode]_vars


\* ---- _align_wave_channels on its own, as the four result and progress
\* handlers call it before they store a job's amplitudes.
AmpValues ==
    {Finite(v) : v \in (0 - AmpScale - 1)..(AmpScale + 1)}
      \cup {NaN, PosInf, NegInf}

AlignStep ==
    /\ calc = NoCalc
    /\ \E x_size \in 0..(MaxAlignRows + 1) : \E rows \in 0..MaxAlignRows :
       \E ch \in 1..MaxChannels :
       \E amplitudes \in [1..rows -> [1..ch -> AmpValues]] :
         /\ calc' = [op |-> "align", x_size |-> x_size,
                     amplitudes |-> amplitudes,
                     amp |-> AlignWaveChannels(x_size, amplitudes)]
         /\ UNCHANGED <<scheduler_vars, routing_vars>>

NextAlign == AlignStep

SpecAlign == Init /\ [][NextAlign]_vars


\* ---- the progress ticks of a job on its own: one run of WaveformJob.run
\* with emit_progress set, on a mono file that is silent except for one
\* frame, at the resolutions of the settings dialog.
ProgressFrames ==
    {ShortFrames + e : e \in 1..MaxProgressExtra}
      \cup {LongFrames + e : e \in 1..MaxProgressExtra}

\* Lines 53-72: the header is read, bucket, bins and chunk_frames computed,
\* amp zeroed, the file opened.
ProgressOpen ==
    /\ calc = NoCalc
    /\ \E total_frames \in ProgressFrames : \E points \in Resolutions :
         LET bucket == BucketSize(total_frames, points)
             bins == BinCount(total_frames, bucket)
             chunk_frames == ChunkFrames(bucket)
         IN  \E pos \in {0} \cup ((chunk_frames - 2)..(chunk_frames + 1)) :
               /\ pos < total_frames
               /\ calc' = [op |-> "progress", total_frames |-> total_frames,
                           points |-> points, bucket |-> bucket,
                           bins |-> bins, chunk_frames |-> chunk_frames,
                           loud |-> {pos}, frame_pos |-> 0, amp |-> {},
                           emitted |-> FALSE, filled |-> 0, done |-> FALSE]
               /\ UNCHANGED <<scheduler_vars, routing_vars>>

\* Lines 74-93, one turn of the loop: audio_file.read returns the next
\* chunk_frames frames (the last chunk, what is left), they are accumulated,
\* and a tick with a copy of amp is emitted if progress_interval has elapsed
\* since the last one.
ProgressRead ==
    /\ calc.op = "progress" /\ ~calc.done
    /\ calc.frame_pos < calc.total_frames
    /\ \E elapsed \in BOOLEAN :
         LET frame_count == Min(calc.chunk_frames,
                                calc.total_frames - calc.frame_pos)
             frame_pos == calc.frame_pos + frame_count
         IN  /\ calc' = [calc EXCEPT
                            !.amp = AfterChunkLoud(@, calc.loud, calc.frame_pos,
                                                   frame_count, calc.bucket,
                                                   calc.bins),
                            !.frame_pos = frame_pos,
                            !.emitted = elapsed,
                            !.filled = IF elapsed
                                       THEN FilledBins(frame_pos, calc.bucket,
                                                       calc.bins)
                                       ELSE @]
             /\ UNCHANGED <<scheduler_vars, routing_vars>>

\* Lines 75-77 and 95-98: the read at the end of the file returns nothing and
\* the result is emitted.
ProgressEnd ==
    /\ calc.op = "progress" /\ ~calc.done
    /\ calc.frame_pos = calc.total_frames
    /\ calc' = [calc EXCEPT !.done = TRUE, !.emitted = FALSE]
    /\ UNCHANGED <<scheduler_vars, routing_vars>>

NextProgress ==
    \/ ProgressOpen
    \/ ProgressRead
    \/ ProgressEnd

SpecProgress == Init /\ [][NextProgress]_vars


\* ---- the signals of a job on its own: one run of WaveformJob.run from the
\* header probe to its last signal, on a file that is silent or loud in its
\* first frame only (in its first channel), with the reads it makes and the
\* signals it emits.
C31DegenerateOnlyEmpty(total_frames, sample_rate) == total_frames <= 0

\* Line 58: if total_frames <= 0 or sample_rate <= 0
JobDegenerate(total_frames, sample_rate) ==
    total_frames <= 0 \/ sample_rate <= 0

\* np.linspace(0, total_frames / float(sample_rate), bins): the times of the
\* bins in seconds, as exact fractions.
XAxis(total_frames, sample_rate, bins) ==
    [i \in 1..bins |->
       IF bins = 1 THEN FracZero
       ELSE Frac((i - 1) * total_frames, (bins - 1) * sample_rate)]

\* A signal of the job.  amp has rows x columns values, all 0 except the
\* rows of loud (counted from 0) in the first column.
JobSignal(kind, x, rows, columns, loud, filled) ==
    [kind |-> kind, x |-> x, rows |-> rows, columns |-> columns,
     amp |-> loud, filled |-> filled]

\* Lines 52-73: sf.info raises (lines 99-101: errorRaised), or the header is
\* read; a header without frames or without a sample rate gives the result
\* of lines 59-62; otherwise bucket, bins, x and chunk_frames are computed,
\* amp is zeroed and the file is opened.
JobOpen ==
    /\ calc = NoCalc
    /\ \/ /\ calc' = [op |-> "job", info_ok |-> FALSE, reads |-> 0,
                       signals |-> <<JobSignal("error", <<>>, 0, 0, {}, 0)>>,
                       done |-> TRUE]
          /\ UNCHANGED <<scheduler_vars, routing_vars>>
       \/ \E total_frames \in ((0 - 1)..MaxDecodeFrames) \cup {48000} :
          \E sample_rate \in {0 - 1, 0, 48000} :
          \E info_channels \in 0..MaxChannels :
          \E points \in (1..MaxDecodePoints) \cup {100} :
          \E emit_progress \in BOOLEAN :
          \E loud \in {{}, {0}} :
            LET channels == Max(1, info_channels)
                degenerate == JobDegenerate(total_frames, sample_rate)
                bucket == BucketSize(total_frames, points)
                bins == BinCount(total_frames, bucket)
            IN  /\ loud = {} \/ total_frames >= 1
                /\ calc' = [op |-> "job", info_ok |-> TRUE,
                            total_frames |-> total_frames,
                            sample_rate |-> sample_rate,
                            info_channels |-> info_channels,
                            channels |-> channels, points |-> points,
                            emit_progress |-> emit_progress, loud |-> loud,
                            bucket |-> IF degenerate THEN 0 ELSE bucket,
                            bins |-> IF degenerate THEN 0 ELSE bins,
                            chunk_frames |-> IF degenerate THEN 0
                                             ELSE ChunkFrames(bucket),
                            frame_pos |-> 0, amp |-> {}, reads |-> 0,
                            signals |-> IF degenerate
                                        THEN <<JobSignal("result", <<FracZero>>,
                                                         1, channels, {}, 0)>>
                                        ELSE <<>>,
                            done |-> degenerate]
                /\ UNCHANGED <<scheduler_vars, routing_vars>>

\* Lines 74-93, one turn of the loop: audio_file.read returns the next
\* chunk_frames frames (the last chunk, what is left), they are accumulated,
\* and a tick is emitted if emit_progress is set and progress_interval has
\* elapsed.
JobRead ==
    /\ calc.op = "job" /\ ~calc.done
    /\ calc.frame_pos < calc.total_frames
    /\ \E elapsed \in BOOLEAN :
         LET frame_count == Min(calc.chunk_frames,
                                calc.total_frames - calc.frame_pos)
             frame_pos == calc.frame_pos + frame_count
             amp == AfterChunkLoud(calc.amp, calc.loud, calc.frame_pos,
                                   frame_count, calc.bucket, calc.bins)
             tick == JobSignal("progress",
                               XAxis(calc.total_frames, calc.sample_rate,
                                     calc.bins),
                               calc.bins, calc.channels, amp,
                               FilledBins(frame_pos, calc.bucket, calc.bins))
         IN  /\ elapsed => calc.emit_progress
             /\ calc' = [calc EXCEPT
                            !.amp = amp, !.frame_pos = frame_pos,
                            !.reads = @ + 1,
                            !.signals = IF elapsed THEN Append(@, tick) ELSE @]
             /\ UNCHANGED <<scheduler_vars, routing_vars>>

\* Lines 75-77 and 95-98: the read at the end of the file returns nothing,
\* the loop is left and the result is emitted.
JobEnd ==
    /\ calc.op = "job" /\ ~calc.done
    /\ calc.frame_pos = calc.total_frames
    /\ calc' = [calc EXCEPT
                   !.reads = @ + 1,
                   !.signals =
                       Append(@, JobSignal("result",
                                           XAxis(calc.total_frames,
                                                 calc.sample_rate, calc.bins),
                                           calc.bins, calc.channels, calc.amp,
                                           0)),
                   !.done = TRUE]
    /\ UNCHANGED <<scheduler_vars, routing_vars>>

NextJob ==
    \/ JobOpen
    \/ JobRead
    \/ JobEnd

SpecJob == Init /\ [][NextJob]_vars


\* ---- audio routing on its own: the runtime matrix of any settings and
\* channel counts, and _resolve_playback_source on any file and device.
UserMatrices ==
    {DefaultRoutingMatrix, RoutingMatrixPreset(2), RoutingMatrixPreset(6)}

RoutingSettings ==
    {[matrix_enabled |-> e, mode |-> m, user_matrix |-> u] :
       e \in BOOLEAN, m \in RoutingModes, u \in UserMatrices}

BuildMatrixStep ==
    /\ calc = NoCalc
    /\ \E cfg \in RoutingSettings :
       \E source_channels \in 1..RoutingSize :
       \E output_channels \in 1..RoutingSize :
         /\ ~cfg.matrix_enabled => cfg.user_matrix = DefaultRoutingMatrix
         /\ calc' = [op |-> "build", cfg |-> cfg,
                     source_channels |-> source_channels,
                     output_channels |-> output_channels,
                     matrix |-> BuildRuntimeRoutingMatrix(
                                    cfg.matrix_enabled, cfg.mode,
                                    cfg.user_matrix, source_channels,
                                    output_channels)]
         /\ UNCHANGED <<scheduler_vars, routing_vars>>

ResolveStep ==
    /\ calc = NoCalc
    /\ \E cfg \in RoutingSettings :
       \E source_channels \in 1..RoutingSize :
       \E device_max \in 1..RoutingSize :
       \E info_ok \in BOOLEAN, cached \in BOOLEAN, io_ok \in BOOLEAN :
         /\ ~cfg.matrix_enabled => cfg.user_matrix = DefaultRoutingMatrix
         /\ calc' = [op |-> "resolve", cfg |-> cfg,
                     source_channels |-> source_channels,
                     device_max |-> device_max, info_ok |-> info_ok,
                     cached |-> cached, io_ok |-> io_ok,
                     out |-> ResolvePlaybackSource(
                                 cfg.matrix_enabled, cfg.mode, cfg.user_matrix,
                                 source_channels, device_max, info_ok, cached,
                                 io_ok)]
         /\ UNCHANGED <<scheduler_vars, routing_vars>>

NextRouting ==
    \/ BuildMatrixStep
    \/ ResolveStep

SpecRouting == Init /\ [][NextRouting]_vars


\* ---- one call of _resolve_playback_source on its own, with its effect on
\* the cache map, the session set and the directory: for any channel counts
\* of the file and the device, on a first start and after a file was routed
\* to stereo.
FirstStart(cfg) ==
    [audio_routing |-> cfg, routed_audio_cache |-> <<>>,
     session_routed_files |-> {}, routed_dir |-> {},
     player_source |-> NoSource, current_track_path |-> NoSource]

AfterStereoRender(cfg) ==
    [SetSource(ResolveRouted(FirstStart([AutoRouting EXCEPT !.mode = "stereo"]),
                             SourcePath(1), RoutedChannels, RoutedChannels,
                             TRUE, "ok")).state
       EXCEPT !.audio_routing = cfg]

ResolveSettings ==
    {AutoRouting,
     [AutoRouting EXCEPT !.mode = "stereo"],
     [AutoRouting EXCEPT !.matrix_enabled = TRUE]}

ResolveCall(r, source_channels, device_max, info_ok, io, res) ==
    /\ calc' = [op |-> "resolve_call", before |-> r,
                source_channels |-> source_channels,
                device_max |-> device_max, info_ok |-> info_ok, io |-> io,
                returned |-> res.returned, rendered |-> res.rendered,
                after |-> res.state]
    /\ UNCHANGED <<scheduler_vars, routing_vars>>

ResolveFirstStep ==
    /\ calc = NoCalc
    /\ \E cfg \in ResolveSettings :
       \E source_channels \in 1..RoutingSize :
       \E device_max \in 1..RoutingSize :
       \E info_ok \in BOOLEAN, io \in {"ok", "write"} :
         ResolveCall(FirstStart(cfg), source_channels, device_max, info_ok, io,
                     ResolveRouted(FirstStart(cfg), SourcePath(2),
                                   source_channels, device_max, info_ok, io))

ResolveLaterStep ==
    /\ calc = NoCalc
    /\ \E cfg \in ResolveSettings :
       \E source_channels \in 1..RoutingSize :
       \E device_max \in 1..RoutingSize :
       \E info_ok \in BOOLEAN, io \in {"ok", "write"} :
         ResolveCall(AfterStereoRender(cfg), source_channels, device_max,
                     info_ok, io,
                     ResolveRouted(AfterStereoRender(cfg), SourcePath(2),
                                   source_channels, device_max, info_ok, io))

NextResolve ==
    \/ ResolveFirstStep
    \/ ResolveLaterStep

SpecResolve == Init /\ [][NextResolve]_vars


\* ---- the stored form of the routing matrix on its own: matrices are
\* serialized and parsed back, and strings as a settings file can hold them
\* are parsed.
ZeroRoutingMatrix ==
    [r \in 1..RoutingSize |-> [c \in 1..RoutingSize |-> 0]]

\* The matrices the dialog's grid of check boxes gives: the empty and the
\* full grid, the default, the presets, and the empty grid and the default
\* with one box toggled.
TextMatrices ==
    {ZeroRoutingMatrix, DefaultRoutingMatrix,
     [r \in 1..RoutingSize |-> [c \in 1..RoutingSize |-> 1]]}
      \cup {RoutingMatrixPreset(RoutingTargetChannels(mode)) :
               mode \in RoutingModes}
      \cup {[base EXCEPT ![r][c] = 1 - @] :
               base \in {ZeroRoutingMatrix, DefaultRoutingMatrix},
               r \in 1..RoutingSize, c \in 1..RoutingSize}

\* Strings that are not the serialized form of a matrix.
TextStrings ==
    {<<>>, <<"|">>, <<"1">>, <<"0", "1">>, <<"0", "|", "0", "1">>,
     <<"|", "|", "0", "1", "|">>, <<"x", "1">>, <<"1", "|", "1", "|", "1">>}

MatrixTextStep ==
    /\ calc = NoCalc
    /\ \E matrix \in TextMatrices :
         LET raw == SerializeRoutingMatrixText(matrix)
         IN  calc' = [op |-> "matrix_text", matrix |-> matrix, raw |-> raw,
                      parsed |-> ParseRoutingMatrix(raw)]
    /\ UNCHANGED <<scheduler_vars, routing_vars>>

ParseTextStep ==
    /\ calc = NoCalc
    /\ \E raw \in TextStrings :
         calc' = [op |-> "parse", matrix |-> <<>>, raw |-> raw,
                  parsed |-> ParseRoutingMatrix(raw)]
    /\ UNCHANGED <<scheduler_vars, routing_vars>>

NextMatrixText ==
    \/ MatrixTextStep
    \/ ParseTextStep

SpecMatrixText == Init /\ [][NextMatrixText]_vars


\* ---- the routed-file cache on its own: tracks are loaded one after the
\* other under settings that change, routed files vanish, the window is
\* closed and the program started again.  load_track and closeEvent are
\* followed in what they do to the routing state; the scheduler, which they
\* also drive, neither reads nor writes that state.
RoutedTracks == RoutedCacheLimit + MaxRoutedEvicted

RoutedSettings ==
    {AutoRouting,
     [AutoRouting EXCEPT !.mode = "stereo"],
     [AutoRouting EXCEPT !.matrix_enabled = TRUE],
     [AutoRouting EXCEPT !.matrix_enabled = TRUE,
                         !.user_matrix = RoutingMatrixPreset(6)]}

Keys(cache) == {cache[i].key : i \in 1..Len(cache)}

FirstN(seq, n) == SubSeq(seq, 1, Min(n, Len(seq)))

\* The routing step that has run: its inputs, what resolve answered (of the
\* directories it went through, the files of its cache key), the state
\* before it, the keys of the cache in the order of their insertion,
\* and the paths the step took out of the cache next to the ones that are
\* the oldest among those that are not the player's source.
RoutedHistOf(op, extra, files, track, info_ok, io, res) ==
    LET after == res.state.routed_audio_cache
        held == res.keyed /\ res.returned = RoutedPath(res.key)
        order1 == IF held /\ res.key \notin Range(routed_hist.order)
                  THEN Append(routed_hist.order, res.key)
                  ELSE routed_hist.order
        deletable == SelectSeq(order1,
                               LAMBDA k : RoutedPath(k) # player_source)
        gone == SelectSeq(order1, LAMBDA k : k \notin Keys(after))
    IN  [op |-> op, files |-> files,
         extras |-> routed_hist.extras + (IF extra THEN 1 ELSE 0),
         track |-> track, info_ok |-> info_ok, io |-> io,
         returned |-> res.returned, keyed |-> res.keyed,
         rendered |-> res.rendered, key |-> res.key,
         trace |-> [i \in 1..Len(res.trace) |->
                      {f \in res.trace[i] : f.path.key = res.key}],
         before |-> Rt,
         order |-> SelectSeq(order1, LAMBDA k : k \in Keys(after)),
         evicted |-> [i \in 1..Len(gone) |-> RoutedPath(gone[i])],
         expected |-> LET keys == FirstN(deletable,
                                         Max(0, Len(order1) - RoutedCacheLimit))
                      IN  [i \in 1..Len(keys) |-> RoutedPath(keys[i])]]

NoResolve(r) ==
    [state |-> r, returned |-> NoSource, keyed |-> FALSE, rendered |-> FALSE,
     key |-> NoKey, trace |-> <<r.routed_dir>>]

RoutedStep(t, h, c) ==
    /\ audio_routing' = t.audio_routing
    /\ routed_audio_cache' = t.routed_audio_cache
    /\ session_routed_files' = t.session_routed_files
    /\ routed_dir' = t.routed_dir
    /\ player_source' = t.player_source
    /\ current_track_path' = t.current_track_path
    /\ routed_hist' = h
    /\ closed' = c
    /\ UNCHANGED <<tracks, current_index, playlist_row, waveform_points,
                   file_sig, wave_cache, wave_partial, preload_queue,
                   preload_set, active_request_id, active_thread, active_path,
                   active_signature, active_failed, preload_request_id,
                   preload_thread, preload_path, preload_signature, display,
                   workers, events, cancel_called, known, file_changes, last,
                   advanced, failed_jobs, cache_hist, calc>>

\* The step of a handler that left res.
RoutedResolved(op, extra, files, track, info_ok, io, res) ==
    RoutedStep(res.state,
               RoutedHistOf(op, extra, files, track, info_ok, io, res),
               FALSE)

MoreExtras == routed_hist.extras < MaxRoutedExtras

\* load_track of a track that was not loaded before.
RoutedLoadNew ==
    /\ ~closed
    /\ routed_hist.files < RoutedTracks
    /\ LET path == SourcePath(routed_hist.files + 1)
       IN  RoutedResolved("load", FALSE, routed_hist.files + 1, path, TRUE, "ok",
                          LoadTrackSource(Rt, path, RoutedChannels,
                                          RoutedChannels, TRUE, TRUE, "ok"))

\* load_track of the first or the last of the tracks loaded before.
RoutedLoadAgain ==
    /\ ~closed /\ MoreExtras
    /\ \E track \in {1, routed_hist.files} :
         LET path == SourcePath(track)
         IN  /\ track >= 1
             /\ RoutedResolved("load", TRUE, routed_hist.files, path, TRUE,
                               "ok",
                               LoadTrackSource(Rt, path, RoutedChannels,
                                               RoutedChannels, TRUE, TRUE,
                                               "ok"))

\* load_track of a new track with a failure: sf.info raises in load_track or
\* in resolve, or the render raises.
RoutedLoadFails ==
    /\ ~closed /\ MoreExtras
    /\ routed_hist.files < RoutedTracks
    /\ \E load_ok \in BOOLEAN, info_ok \in BOOLEAN, io \in RenderOutcomes :
         LET path == SourcePath(routed_hist.files + 1)
         IN  /\ \/ ~load_ok /\ info_ok /\ io = "ok"
                \/ load_ok /\ ~info_ok /\ io = "ok"
                \/ load_ok /\ info_ok /\ io # "ok"
             /\ RoutedResolved(IF load_ok THEN "load" ELSE "load_error",
                               TRUE, routed_hist.files + 1, path, info_ok, io,
                               LoadTrackSource(Rt, path, RoutedChannels,
                                               RoutedChannels, load_ok,
                                               info_ok, io))

\* The settings dialog is accepted with other routing settings:
\* _apply_audio_preferences and with it _refresh_current_playback_source.
RoutedApplyPreferences ==
    /\ ~closed /\ MoreExtras
    /\ \E cfg \in RoutedSettings \ {audio_routing} :
         RoutedResolved("refresh", TRUE, routed_hist.files,
                        current_track_path, TRUE, "ok",
                        RefreshCurrentPlaybackSource(
                            [Rt EXCEPT !.audio_routing = cfg], RoutedChannels,
                            RoutedChannels, TRUE, "ok"))

\* Another process deletes a routed file: the one of the oldest entry of
\* the cache or the player's source.
RoutedFileVanishes ==
    /\ ~closed /\ MoreExtras
    /\ routed_audio_cache # <<>>
    /\ \E path \in {routed_audio_cache[1].path, player_source} :
         /\ IsFile(routed_dir, path)
         /\ path.dir = "routed"
         /\ LET r == [Rt EXCEPT !.routed_dir = RemoveFile(@, path)]
            IN  RoutedStep(r, RoutedHistOf("vanish", TRUE, routed_hist.files,
                                           path, TRUE, "ok", NoResolve(r)),
                           FALSE)

\* remove_selected_track of the last track of the playlist:
\* self.player.setSource(QUrl()).
RoutedRemoveLastTrack ==
    /\ ~closed /\ MoreExtras
    /\ current_track_path # NoSource
    /\ LET r == [Rt EXCEPT !.player_source = NoSource,
                           !.current_track_path = NoSource]
       IN  RoutedStep(r, RoutedHistOf("clear", TRUE, routed_hist.files,
                                      NoSource, TRUE, "ok", NoResolve(r)),
                      FALSE)

\* closeEvent: _cleanup_session_routed_files
RoutedClose ==
    /\ ~closed /\ MoreExtras
    /\ LET r == CleanupSessionRoutedFiles(Rt)
       IN  RoutedStep(r, RoutedHistOf("close", TRUE, routed_hist.files,
                                      NoSource, TRUE, "ok", NoResolve(r)),
                      TRUE)

\* The program is started again: __init__ with _cleanup_stale_routed_files,
\* which deletes the routed files older than 18 hours (all of them or none
\* here), and the settings of the run before.
RoutedNewSession ==
    /\ closed
    /\ \E stale \in BOOLEAN :
         LET r == [Rt EXCEPT !.routed_audio_cache = <<>>,
                             !.session_routed_files = {},
                             !.routed_dir = IF stale THEN {} ELSE @,
                             !.player_source = NoSource,
                             !.current_track_path = NoSource]
         IN  RoutedStep(r, [NoRoutedHist EXCEPT !.op = "session",
                                                !.files = routed_hist.files,
                                                !.extras = routed_hist.extras,
                                                !.before = Rt],
                        FALSE)

NextRouted ==
    \/ RoutedLoadNew
    \/ RoutedLoadAgain
    \/ RoutedLoadFails
    \/ RoutedApplyPreferences
    \/ RoutedFileVanishes
    \/ RoutedRemoveLastTrack
    \/ RoutedClose
    \/ RoutedNewSession

\* The program starts with a preset or with the matrix mode of the last run.
InitRouted ==
    SchedulerInit
      /\ RoutingInit({cfg \in RoutedSettings :
                        cfg.user_matrix = DefaultRoutingMatrix
                          /\ cfg # AutoRouting})

SpecRouted == InitRouted /\ [][NextRouted]_vars


\* ================================================================= claims
\* C1: a progress, result or error callback whose request id differs from its
\* slot's current request id, or whose path differs from the slot's current
\* path, leaves wave_cache, wave_partial and the displayed waveform unchanged.
C1StaleCallbackDiscarded ==
    [][(/\ events # <<>>
        /\ events' = Tail(events)
        /\ Head(events).kind \in {"progress", "result", "error"}
        /\ LET m == Head(events)
           IN  IF m.slot = "A"
               THEN m.rid # active_request_id \/ m.path # active_path
               ELSE m.rid # preload_request_id \/ m.path # preload_path)
       => UNCHANGED <<wave_cache, wave_partial, display>>]_vars

\* A result with the Active slot's current request id was delivered after the
\* slot's path had been emptied, and was discarded.
C1Witness ==
    /\ last.op = "result" /\ last.slot = "A" /\ ~last.accepted
    /\ last.rid = active_request_id
    /\ active_path # last.path

C3OneWorkerPerSlot ==
    \A slot \in {"A", "P"} :
        Cardinality({w \in workers : w.slot = slot}) <= 1

\* C4 as stated: whenever the Active slot holds a running job, the job's path
\* is the displayed track's.
C4ActiveIsDisplayed ==
    (active_thread # NoThread /\ WorkerOf(St, "A", active_thread) # {})
    => active_path = CurrentTrackPath(St)

\* C4 amended: selecting another track while an Active job is running leaves
\* that job in the Active slot, running and not cancelled.
C4SelectKeepsActive ==
    [][(/\ last'.op = "load_track"
        /\ playlist_row' # playlist_row
        /\ active_thread # NoThread
        /\ active_path # last'.path)
       => /\ active_thread' = active_thread
          /\ active_path' = active_path
          /\ active_request_id' = active_request_id
          /\ cancel_called' = cancel_called
          /\ WorkerOf(St, "A", active_thread) \subseteq workers']_vars

\* Another track was selected and the Active job of the track shown before
\* is still running.
C4Witness ==
    /\ last.op = "load_track"
    /\ active_thread # NoThread
    /\ WorkerOf(St, "A", active_thread) # {}
    /\ CurrentTrackPath(St) = last.path
    /\ active_path # last.path

\* C5: _load_waveform_for_track(path) with no cache hit and path in no slot
\* starts the Active job if the Active slot is idle, else the Preload job with
\* progress emission if the Preload slot is idle, else puts path at the front
\* of the preload queue, once, and starts nothing.
C5RequestPlacement ==
    \A path \in Range(tracks) :
        LET signature == FileSignature(St, path)
            hit == \E i \in 1..Len(wave_cache) :
                       wave_cache[i].path = path /\ wave_cache[i].sig = signature
            in_slot == \/ active_thread # NoThread /\ active_path = path
                       \/ preload_thread # NoThread /\ preload_path = path
            t == LoadWaveformForTrack(St, path)
            rest == SelectSeq(preload_queue, LAMBDA q : q # path)
        IN  (~FileMissing(St, path) /\ ~hit /\ ~in_slot) =>
            IF active_thread = NoThread
            THEN /\ t.active_path = path
                 /\ t.active_request_id = active_request_id + 1
                 /\ t.active_thread = t.active_request_id
                 /\ t.workers = workers \cup
                        {NewWorker("A", t.active_request_id, path, signature, TRUE)}
                 /\ t.preload_request_id = preload_request_id
                 /\ t.preload_queue = rest
            ELSE IF preload_thread = NoThread
            THEN /\ t.preload_path = path
                 /\ t.preload_request_id = preload_request_id + 1
                 /\ t.preload_thread = t.preload_request_id
                 /\ t.workers = workers \cup
                        {NewWorker("P", t.preload_request_id, path, signature, TRUE)}
                 /\ t.active_request_id = active_request_id
                 /\ t.active_path = active_path
                 /\ t.preload_queue = rest
            ELSE /\ t.preload_queue = <<path>> \o rest
                 /\ t.preload_set = preload_set \cup {path}
                 /\ t.workers = workers
                 /\ t.active_request_id = active_request_id
                 /\ t.preload_request_id = preload_request_id

\* A track was selected while both slots held other tracks' jobs, and it
\* stands at the front of the queue.
C5Witness ==
    /\ last.op = "load_track"
    /\ active_thread # NoThread /\ active_path # last.path
    /\ preload_thread # NoThread /\ preload_path # last.path
    /\ Len(preload_queue) > 1
    /\ Head(preload_queue) = last.path

\* C6: _load_waveform_for_track(path) with a cache entry for path stored under
\* the file's current signature shows that entry, starts no job for path and
\* neither cancels nor replaces the jobs in the Active and Preload slots; with
\* an entry stored under another signature it does not show the entry.
C6CacheHitAndStaleEntry ==
    \A path \in Range(tracks) :
        LET signature == SignatureOrEmpty(St, path)
            t == LoadWaveformForTrack(St, path)
        IN  \A i \in 1..Len(wave_cache) :
                wave_cache[i].path = path =>
                IF wave_cache[i].sig = signature
                THEN /\ t.display = [kind |-> "final", slot |-> wave_cache[i].slot,
                                     rid |-> wave_cache[i].rid, path |-> path,
                                     upto |-> 0]
                     /\ \A w \in t.workers \ workers : w.path # path
                     /\ workers \subseteq t.workers
                     /\ t.cancel_called = cancel_called
                     /\ t.active_request_id = active_request_id
                     /\ t.active_thread = active_thread
                     /\ t.active_path = active_path
                     /\ preload_thread # NoThread =>
                            /\ t.preload_request_id = preload_request_id
                            /\ t.preload_thread = preload_thread
                            /\ t.preload_path = preload_path
                ELSE t.display.kind # "final"

\* A track whose waveform is cached under its file's signature was selected
\* and the cached waveform is shown.
C6Witness ==
    /\ last.op = "load_track"
    /\ display.kind = "final"
    /\ display.path = last.path
    /\ CurrentTrackPath(St) = last.path

\* C7: wave_cache gains or replaces an entry only in the step that accepts a
\* result callback of the job occupying a slot, a job cancel() was not called
\* on, and the entry is stored under the signature the job was started with.
C7CacheWrittenOnAcceptedResult ==
    [][(wave_cache' # wave_cache /\ wave_cache' # <<>>)
       => /\ events # <<>>
          /\ events' = Tail(events)
          /\ LET m == Head(events)
             IN  /\ m.kind = "result"
                 /\ <<m.slot, m.rid>> \notin cancel_called
                 /\ IF m.slot = "A"
                    THEN /\ active_thread = m.rid
                         /\ active_request_id = m.rid
                         /\ active_path = m.path
                    ELSE /\ preload_thread = m.rid
                         /\ preload_request_id = m.rid
                         /\ preload_path = m.path
                 /\ \E i \in 1..Len(wave_cache') :
                        wave_cache'[i] = [path |-> m.path, sig |-> m.sig,
                                          slot |-> m.slot, rid |-> m.rid]
                 /\ \A i \in 1..Len(wave_cache) :
                        wave_cache[i].path # m.path =>
                            \E j \in 1..Len(wave_cache') :
                                wave_cache'[j] = wave_cache[i]]_vars

\* A result was accepted and its entry is in the cache.
C7Witness ==
    /\ last.op = "result" /\ last.accepted
    /\ \E i \in 1..Len(wave_cache) :
           /\ wave_cache[i].path = last.path
           /\ wave_cache[i].slot = last.slot
           /\ wave_cache[i].rid = last.rid

\* C8: when the Active job's thread-finished notification arrives with the
\* current request id, no cache entry under the job's signature, no error
\* recorded and the job's path displayed, exactly one Active job for that path
\* is started, with the next request id; otherwise none is started, and never
\* for a job that emitted a result or an error.
C8RestartAfterSilentEnd ==
    [][(/\ events # <<>>
        /\ events' = Tail(events)
        /\ Head(events).kind = "finished"
        /\ Head(events).slot = "A"
        /\ Head(events).rid = active_request_id)
       => /\ IF /\ active_path # NoPath
                /\ ~active_failed
                /\ ~\E i \in 1..Len(wave_cache) :
                       /\ wave_cache[i].path = active_path
                       /\ wave_cache[i].sig = active_signature
                /\ CurrentTrackPath(St) = active_path
             THEN /\ active_request_id' = active_request_id + 1
                  /\ active_thread' = active_request_id'
                  /\ active_path' = active_path
                  /\ workers' = workers \cup
                        {NewWorker("A", active_request_id', active_path,
                                   active_signature, TRUE)}
             ELSE /\ active_request_id' = active_request_id
                  /\ active_thread' = NoThread
                  /\ \A w \in workers' \ workers : w.slot # "A"
          /\ Head(events).out \in {"result", "error"} =>
                 active_request_id' = active_request_id]_vars

\* The Active job's thread finished without a result or an error and the job
\* was started again for the same path.
C8Witness ==
    /\ last.op = "finished" /\ last.slot = "A" /\ last.accepted
    /\ active_request_id = last.rid + 1
    /\ active_thread = active_request_id
    /\ active_path = last.path

\* C9: after remove_selected_track the removed path is in neither the preload
\* queue nor the preload set and has no wave_partial entry, and if it was the
\* path of the Active or of the Preload job, cancel() was called on that job
\* and the slot is idle with an empty path.
C9RemovedTrackForgotten ==
    [][(last'.op = "remove" /\ Len(tracks') < Len(tracks))
       => LET path == last'.path
          IN  /\ path \notin preload_set'
              /\ path \notin Range(preload_queue')
              /\ wave_partial'[path] = NoPartial
              /\ (active_thread # NoThread /\ active_path = path) =>
                     /\ <<"A", active_thread>> \in cancel_called'
                     /\ active_thread' = NoThread
                     /\ active_path' = NoPath
              /\ (preload_thread # NoThread /\ preload_path = path) =>
                     /\ <<"P", preload_thread>> \in cancel_called'
                     /\ preload_thread' = NoThread
                     /\ preload_path' = NoPath]_vars

\* The track of the Active job was removed; the job was cancelled, is still
\* running, and the slot is idle.
C9Witness ==
    /\ last.op = "remove"
    /\ active_thread = NoThread
    /\ <<"A", active_request_id>> \in cancel_called
    /\ \E w \in workers : w.slot = "A" /\ w.rid = active_request_id
                          /\ w.path = last.path /\ w.cancelled

\* C10: closeEvent calls cancel() on the Active and on the Preload job and
\* leaves both slots idle, whether or not the workers end within the wait.
C10CloseLeavesSlotsIdle ==
    [][(closed' /\ ~closed)
       => /\ active_thread # NoThread =>
                 <<"A", active_thread>> \in cancel_called'
          /\ preload_thread # NoThread =>
                 <<"P", preload_thread>> \in cancel_called'
          /\ active_thread' = NoThread /\ active_path' = NoPath
          /\ preload_thread' = NoThread /\ preload_path' = NoPath
          /\ \A w \in workers' : w.cancelled]_vars

\* The window was closed while a job's worker did not end within the wait.
C10Witness ==
    /\ last.op = "close"
    /\ active_thread = NoThread /\ preload_thread = NoThread
    /\ \E w \in workers : w.cancelled /\ w.slot = "P"
                          /\ w.rid = preload_request_id

\* C11: QMessageBox.warning is raised only by the error callback of the
\* current Active job while that job's track is the displayed one; the error
\* callback of a Preload job raises none, whatever track is displayed.
C11WarningOnlyForDisplayedActive ==
    /\ last.warned
         => /\ last.op = "error" /\ last.slot = "A" /\ last.accepted
            /\ last.rid = active_request_id
            /\ last.path # NoPath /\ last.path = active_path
            /\ CurrentTrackPath(St) = last.path
    /\ (last.op = "error" /\ last.slot = "P") => ~last.warned

\* The Active job of the displayed track failed and the warning was raised.
C11Witness ==
    /\ last.op = "error" /\ last.slot = "A" /\ last.warned
    /\ CurrentTrackPath(St) = last.path

\* C12: a job's progress callbacks are emitted before its terminal callback;
\* a job that is not cancelled emits exactly one terminal callback (a result
\* or an error) when it ends; a job on which cancel() was called before its
\* run() ended emits no terminal callback.
C12JobCallbackOrder ==
    [][\A w \in workers :
         LET posted == {i \in (Len(events) + 1)..Len(events') :
                          events'[i].slot = w.slot /\ events'[i].rid = w.rid}
             terminal == {i \in posted : events'[i].kind \in {"result", "error"}}
             ended == {i \in posted : events'[i].kind = "finished"}
         IN  /\ \A i \in posted, j \in terminal \cup ended :
                   events'[i].kind = "progress" => i < j
             /\ (~w.cancelled /\ <<w.slot, w.rid>> \notin cancel_called'
                 /\ ended # {})
                   => Cardinality(terminal) = 1
             /\ (w.cancelled \/ <<w.slot, w.rid>> \in cancel_called')
                   => terminal = {}]_vars

\* C13: after any sequence of _cache_store, _cache_get and clear calls
\* wave_cache holds at most 40 entries.
C13CacheBounded == Len(wave_cache) <= WaveCacheLimit

\* A store into the full cache has evicted an entry.
C13Witness ==
    /\ cache_hist.op = "store" /\ cache_hist.evicted # NoPath
    /\ Len(wave_cache) = WaveCacheLimit

\* C14: the entry a store evicts is the least recently used one, where a hit
\* of _cache_get and a store of a cached path count as uses.
C14EvictsLeastRecentlyUsed ==
    cache_hist.evicted # NoPath => cache_hist.evicted = cache_hist.lru

\* C15: wave_partial holds entries only for the paths of the jobs in flight
\* (the path of the Active or of the Preload slot while the slot holds a
\* thread), none once the slot is cleared, and every entry has
\* 0 <= filled_bins <= total_bins.
C15PartialOnlyInFlight ==
    \A p \in Paths :
        wave_partial[p] # NoPartial
          => /\ \/ p = active_path /\ active_thread # NoThread
                \/ p = preload_path /\ preload_thread # NoThread
             /\ 0 <= wave_partial[p].filled
             /\ wave_partial[p].filled <= wave_partial[p].total

\* C16: for total_frames >= 1 and points >= 1, bucket = ceil(total_frames /
\* points) and bins = ceil(total_frames / bucket) give 1 <= bins <= points.
C16BinsWithinTarget ==
    calc.op = "bins"
      => /\ calc.bucket * calc.points >= calc.total_frames
         /\ (calc.bucket - 1) * calc.points < calc.total_frames
         /\ 1 <= calc.bins /\ calc.bins <= calc.points

\* A file whose frames do not fill the requested bins: fewer bins than asked.
C16Witness ==
    /\ calc.op = "bins" /\ calc.bucket > 1
    /\ calc.bins < calc.points

\* C17: however the file was read in chunks, the result of a completed
\* decimation has in bin b, channel c the largest absolute sample of channel c
\* over the frames at positions pos with floor(pos / bucket) = b (0 where a
\* file has no frames); so the result is a function of the file and the
\* points alone.
C17DecimationIsBucketMaximum ==
    (calc.op = "decode" /\ calc.done)
      => \A b \in 1..calc.bins : \A c \in 1..calc.channels :
           calc.amp[b][c] =
             SetMax({0} \cup {Abs(calc.samples[i][c]) :
                                i \in {j \in 1..Len(calc.samples) :
                                         (j - 1) \div calc.bucket = b - 1}})

\* A completed decimation with several bins of more than one frame and a
\* negative sample as a bin's peak.
C17Witness ==
    /\ calc.op = "decode" /\ calc.done
    /\ calc.bucket > 1 /\ calc.bins > 1
    /\ \E i \in 1..Len(calc.samples) :
          /\ calc.samples[i][1] < 0
          /\ calc.amp[((i - 1) \div calc.bucket) + 1][1] = 0 - calc.samples[i][1]

\* C18 as stated: every amplitude that is stored lies in [0, 1] and every
\* non-finite input value (NaN, +infinity, -infinity) is stored as 0.
C18NonFiniteStoredAsZero ==
    calc.op = "align"
      => \A r \in 1..Len(calc.amp) : \A c \in 1..Len(calc.amp[r]) :
           /\ calc.amp[r][c].kind = "finite"
           /\ 0 <= calc.amp[r][c].v /\ calc.amp[r][c].v <= AmpScale
           /\ calc.amplitudes[r][c].kind # "finite" => calc.amp[r][c].v = 0

\* C18, amended: every amplitude that is stored is finite and lies in [0, 1];
\* NaN and -infinity are stored as 0, +infinity is stored as 1, and a finite
\* value is stored clamped to [0, 1].
C18StoredAmplitudeSanitized ==
    calc.op = "align"
      => \A r \in 1..Len(calc.amp) : \A c \in 1..Len(calc.amp[r]) :
           LET in == calc.amplitudes[r][c]
               out == calc.amp[r][c]
           IN  /\ out.kind = "finite" /\ 0 <= out.v /\ out.v <= AmpScale
               /\ in.kind \in {"nan", "neginf"} => out.v = 0
               /\ in.kind = "posinf" => out.v = AmpScale
               /\ (in.kind = "finite" /\ 0 <= in.v /\ in.v <= AmpScale)
                     => out.v = in.v
               /\ (in.kind = "finite" /\ in.v < 0) => out.v = 0
               /\ (in.kind = "finite" /\ in.v > AmpScale) => out.v = AmpScale

\* An array with a +infinity and a NaN was aligned and kept whole.
C18Witness ==
    /\ calc.op = "align" /\ Len(calc.amp) = MaxAlignRows
    /\ \E r \in 1..Len(calc.amp) : \E c \in 1..Len(calc.amp[r]) :
          calc.amplitudes[r][c] = PosInf /\ calc.amp[r][c] = Finite(AmpScale)
    /\ \E r \in 1..Len(calc.amp) : \E c \in 1..Len(calc.amp[r]) :
          calc.amplitudes[r][c] = NaN /\ calc.amp[r][c] = Finite(0)

\* C19 as stated: in every routing mode, when the runtime matrix is a square
\* identity and source and output have the same number of channels,
\* _resolve_playback_source returns the source path and writes no file.
C19IdentityPassesThrough ==
    (/\ calc.op = "resolve"
     /\ IsIdentityRouting(calc.out.matrix)
     /\ calc.out.output_channels = calc.source_channels)
      => calc.out.returned = "source" /\ ~calc.out.rendered

\* C19, amended: with no override active (mode "auto", matrix disabled)
\* _resolve_playback_source returns the source path and writes no file; with
\* an override active, an identity runtime matrix with equal channel counts is
\* routed like any other: the routed file is returned, and written unless it
\* exists already.
C19PassThroughOnlyWithoutOverride ==
    calc.op = "resolve"
      => /\ (~calc.cfg.matrix_enabled /\ calc.cfg.mode = "auto")
              => calc.out.returned = "source" /\ ~calc.out.rendered
         /\ (/\ calc.cfg.matrix_enabled \/ calc.cfg.mode # "auto"
             /\ calc.info_ok
             /\ IsIdentityRouting(calc.out.matrix)
             /\ calc.out.output_channels = calc.source_channels)
              => /\ calc.out.rendered = ~calc.cached
                 /\ calc.out.returned = "routed" <=> (calc.cached \/ calc.io_ok)

\* A stereo file under the stereo preset: the runtime matrix is the 2 x 2
\* identity and a routed file was written and returned.
C19Witness ==
    /\ calc.op = "resolve" /\ ~calc.cfg.matrix_enabled
    /\ calc.cfg.mode = "stereo"
    /\ IsIdentityRouting(calc.out.matrix)
    /\ calc.out.output_channels = calc.source_channels
    /\ calc.out.returned = "routed" /\ calc.out.rendered

\* C20: outside matrix mode, for every preset and all source and output
\* channel counts in 1..12, every gain of the runtime matrix lies in [0, 1],
\* the gains of every output column sum to at most 1 and the gains of every
\* source row sum to at most 1.
C20GainsNormalised ==
    (calc.op = "build" /\ ~calc.cfg.matrix_enabled)
      => /\ Len(calc.matrix) = calc.source_channels
         /\ \A r \in 1..Len(calc.matrix) :
              /\ Len(calc.matrix[r]) = calc.output_channels
              /\ FracLeq(FracSum(calc.matrix[r], calc.output_channels), FracOne)
              /\ \A c \in 1..calc.output_channels :
                   /\ FracLeq(FracZero, calc.matrix[r][c])
                   /\ FracLeq(calc.matrix[r][c], FracOne)
         /\ \A c \in 1..calc.output_channels :
              FracLeq(FracSum(ColumnOf(calc.matrix, c), calc.source_channels),
                      FracOne)

\* A 6-channel source under the stereo preset on 2 outputs: both columns were
\* scaled down and sum to 1.
C20Witness ==
    /\ calc.op = "build" /\ ~calc.cfg.matrix_enabled
    /\ calc.cfg.mode = "stereo"
    /\ calc.source_channels = 6 /\ calc.output_channels = 2
    /\ calc.matrix[1][1] = Frac(1, 3)
    /\ \A c \in 1..2 :
         FracSum(ColumnOf(calc.matrix, c), calc.source_channels) = FracOne

C22MatrixModeIsPatchbay ==
    /\ (calc.op = "build" /\ calc.cfg.matrix_enabled)
          => /\ Len(calc.matrix) = calc.source_channels
             /\ \A r \in 1..calc.source_channels :
                  /\ Len(calc.matrix[r]) = calc.output_channels
                  /\ \A c \in 1..calc.output_channels :
                       calc.matrix[r][c] =
                         IF calc.cfg.user_matrix[r][c] = 1
                         THEN FracOne ELSE FracZero
    /\ (calc.op = "resolve" /\ calc.cfg.matrix_enabled /\ calc.info_ok)
          => /\ Len(calc.out.matrix) = calc.source_channels
             /\ \A r \in 1..calc.source_channels :
                  /\ Len(calc.out.matrix[r]) = calc.out.output_channels
                  /\ \A c \in 1..calc.out.output_channels :
                       calc.out.matrix[r][c] =
                         IF calc.cfg.user_matrix[r][c] = 1
                         THEN FracOne ELSE FracZero

\* Matrix mode with the 5.1 pattern checked, a 4-channel source and 2
\* outputs: sources 3 and 4 have their only checked cell outside the output
\* columns and stay silent, sources 1 and 2 have gain 1.
C22Witness ==
    /\ calc.op = "build" /\ calc.cfg.matrix_enabled
    /\ calc.cfg.user_matrix = RoutingMatrixPreset(6)
    /\ calc.source_channels = 4 /\ calc.output_channels = 2
    /\ calc.matrix[1][1] = FracOne /\ calc.matrix[2][2] = FracOne
    /\ \A r \in 3..4 : \A c \in 1..2 : calc.matrix[r][c] = FracZero

\* C23: when the cache holds the routed file of a configuration with another
\* boolean matrix but the same source file, channel counts and runtime
\* matrix, resolve returns that file and renders nothing.
C23SameRuntimeMatrixSharesRender ==
    \A i \in 1..Len(routed_hist.before.routed_audio_cache) :
      LET e == routed_hist.before.routed_audio_cache[i]
          k == routed_hist.key
      IN  (/\ routed_hist.op \in {"load", "refresh"} /\ routed_hist.keyed
           /\ e.key.sig = k.sig /\ e.key.digest = k.digest
           /\ e.key.token.sc = k.token.sc /\ e.key.token.oc = k.token.oc
           /\ e.key.token.matrix # k.token.matrix
           /\ \E f \in routed_hist.before.routed_dir : f.path = e.path)
            => ~routed_hist.rendered /\ routed_hist.returned = e.path

\* C24: when resolve computes a cache key it renders exactly if no file is at
\* the key's path <cache_key>.wav: with the file there it returns that path
\* and writes no file, and with an entry in the dict whose file is gone it
\* renders again.
C24RendersIffNoFileAtKeyPath ==
    (routed_hist.op \in {"load", "refresh"} /\ routed_hist.keyed)
      => LET path == RoutedPath(routed_hist.key)
             there == \E f \in routed_hist.before.routed_dir : f.path = path
             entry == \E i \in 1..Len(routed_hist.before.routed_audio_cache) :
                        routed_hist.before.routed_audio_cache[i].key
                          = routed_hist.key
         IN  /\ routed_hist.rendered <=> ~there
             /\ there => /\ routed_hist.returned = path
                         /\ routed_dir \subseteq routed_hist.before.routed_dir
             /\ (entry /\ ~there) => routed_hist.rendered

\* The dict held the key, its file had been deleted, and resolve wrote the
\* file again and returned it.
C24Witness ==
    /\ routed_hist.op = "load" /\ routed_hist.keyed
    /\ \E i \in 1..Len(routed_hist.before.routed_audio_cache) :
         routed_hist.before.routed_audio_cache[i].key = routed_hist.key
    /\ ~IsFile(routed_hist.before.routed_dir, RoutedPath(routed_hist.key))
    /\ routed_hist.rendered
    /\ routed_hist.returned = RoutedPath(routed_hist.key)
    /\ IsFile(routed_dir, RoutedPath(routed_hist.key))

\* C25: the trim of a resolve call takes neither the entry nor the file of
\* the path that is the player's source when the trim runs.
C25TrimSparesPlayerSource ==
    routed_hist.op \in {"load", "refresh"}
      => LET source == routed_hist.before.player_source
             InCache(cache) == \E i \in 1..Len(cache) : cache[i].path = source
         IN  /\ \A i \in 1..Len(routed_hist.evicted) :
                  routed_hist.evicted[i] # source
             /\ InCache(routed_hist.before.routed_audio_cache)
                  => /\ InCache(routed_audio_cache)
                     /\ IsFile(routed_hist.before.routed_dir, source)
                          => IsFile(routed_dir, source)
                     /\ source \in routed_hist.before.session_routed_files
                          => source \in session_routed_files

\* The oldest entry of the full cache was the player's source when a new
\* file was stored: the trim went past it and took the second oldest.
C25Witness ==
    /\ routed_hist.op = "load" /\ routed_hist.rendered
    /\ Len(routed_hist.before.routed_audio_cache) = RoutedCacheLimit
    /\ routed_hist.before.routed_audio_cache[1].path
         = routed_hist.before.player_source
    /\ routed_hist.evicted
         = <<routed_hist.before.routed_audio_cache[2].path>>
    /\ IsFile(routed_dir, routed_hist.before.player_source)

C29StartsFirstNotCachedNotActive ==
    \A n \in 1..Len(advanced) :
      LET a == advanced[n]
          Skipped(i) == a.queue[i] = a.active_path \/ a.queue[i] \in a.cached
          eligible == {i \in 1..Len(a.queue) : ~Skipped(i)}
          k == CHOOSE i \in eligible : \A j \in eligible : i <= j
      IN  IF a.busy THEN a.after = a.queue /\ a.started = NoPath
          ELSE IF eligible = {} THEN a.after = <<>> /\ a.started = NoPath
          ELSE /\ a.started = a.queue[k]
               /\ a.emit = {a.queue[k] = a.current}
               /\ a.after = SubSeq(a.queue, k + 1, Len(a.queue))

\* C29, amended: the entries taken off the front and dropped are those that
\* are the Active path, that are cached under their signature, or whose file
\* cannot be read for its signature (it is missing); the first entry that is
\* none of these is started as the Preload job, emitting progress exactly if
\* it is the displayed track, and the entries behind it keep their order; if
\* there is no such entry the queue ends up empty and nothing is started;
\* with the Preload slot busy the queue is left as it is.
C29StartsFirstEligible ==
    \A n \in 1..Len(advanced) :
      LET a == advanced[n]
          Skipped(i) ==
              \/ a.queue[i] = a.active_path
              \/ a.queue[i] \in a.cached
              \/ a.queue[i] \in a.missing
          eligible == {i \in 1..Len(a.queue) : ~Skipped(i)}
          k == CHOOSE i \in eligible : \A j \in eligible : i <= j
      IN  IF a.busy THEN a.after = a.queue /\ a.started = NoPath
          ELSE IF eligible = {} THEN a.after = <<>> /\ a.started = NoPath
          ELSE /\ a.started = a.queue[k]
               /\ a.emit = {a.queue[k] = a.current}
               /\ a.after = SubSeq(a.queue, k + 1, Len(a.queue))
               /\ a.after_set = {a.after[i] : i \in 1..Len(a.after)}

\* A call with the slot idle found an entry that is cached under its
\* signature at the front of the queue, dropped it and started the entry
\* behind it.
C29Witness ==
    \E n \in 1..Len(advanced) :
      LET a == advanced[n]
      IN  /\ ~a.busy /\ Len(a.queue) >= 2
          /\ a.queue[1] \in a.cached
          /\ a.queue[1] # a.active_path
          /\ a.started = a.queue[2]
          /\ a.after = <<>>

\* C30 as stated: in every progress tick, each of the first filledBins bins
\* has received all its frames: its value in the tick's copy of amp is its
\* value in the job's result.
C30FilledBinsAreComplete ==
    (calc.op = "progress" /\ calc.emitted) =>
        LET result == AfterChunkLoud({}, calc.loud, 0, calc.total_frames,
                                     calc.bucket, calc.bins)
        IN  \A b \in 0..(calc.filled - 1) : (b \in calc.amp) <=> (b \in result)

\* C30, amended: in every progress tick filledBins is the number of bins that
\* frames have been read for: no bin from filledBins on has a value yet; each
\* of the first filledBins - 1 bins has received all its frames and holds its
\* value of the job's result; the last of the filledBins bins has received
\* all its frames if the frames read are a whole number of buckets or the
\* whole file, and otherwise holds a value that is at most its value in the
\* result.  The job's result holds, for each bin, the maximum over all the
\* bin's frames.
C30FilledBinsButLastComplete ==
    calc.op = "progress" =>
        LET result == AfterChunkLoud({}, calc.loud, 0, calc.total_frames,
                                     calc.bucket, calc.bins)
            whole == \/ calc.frame_pos % calc.bucket = 0
                     \/ calc.frame_pos = calc.total_frames
        IN  /\ calc.done => calc.amp = result
            /\ calc.emitted =>
                  /\ calc.filled >= 1 /\ calc.filled <= calc.bins
                  /\ \A b \in calc.amp : b < calc.filled
                  /\ \A b \in 0..(calc.filled - 2) :
                        (b \in calc.amp) <=> (b \in result)
                  /\ (calc.filled - 1 \in calc.amp) => (calc.filled - 1 \in result)
                  /\ whole => ((calc.filled - 1 \in calc.amp)
                                 <=> (calc.filled - 1 \in result))

\* A tick after the first chunk of a file that has more frames, where the
\* chunk ends inside a bucket and the loud frame of that bucket is not read
\* yet: the last bin counted holds 0 in the tick and 1 in the result.
C30Witness ==
    /\ calc.op = "progress" /\ calc.emitted
    /\ calc.frame_pos < calc.total_frames
    /\ calc.frame_pos % calc.bucket # 0
    /\ calc.filled - 1 \notin calc.amp
    /\ \E pos \in calc.loud :
         /\ pos >= calc.frame_pos
         /\ BinIndex(pos, calc.bucket, calc.bins) = calc.filled - 1

\* C31: a job whose header reports no frames or no sample rate emits exactly
\* one signal, a result with the single bin at time 0 and zero amplitude for
\* max(1, channels) channels: no tick, no error, and no read of audio data.
C31DegenerateResultAtOnce ==
    (/\ calc.op = "job" /\ calc.info_ok
     /\ (calc.total_frames <= 0 \/ calc.sample_rate <= 0))
    => /\ calc.done
       /\ calc.reads = 0
       /\ calc.signals =
            <<[kind |-> "result", x |-> <<FracZero>>, rows |-> 1,
               columns |-> IF calc.info_channels >= 1 THEN calc.info_channels
                           ELSE 1,
               amp |-> {}, filled |-> 0]>>

\* A job on a file with frames and without a sample rate has ended.
C31Witness ==
    /\ calc.op = "job" /\ calc.info_ok /\ calc.done
    /\ calc.total_frames >= 1 /\ calc.sample_rate <= 0
    /\ calc.info_channels = 0
    /\ Len(calc.signals) = 1

C33ParseOfSerializeIsSame ==
    calc.op = "matrix_text" =>
        /\ calc.parsed = calc.matrix
        /\ Len(calc.raw) = RoutingSize * RoutingSize + RoutingSize - 1
        /\ \A i \in 1..Len(calc.raw) :
              calc.raw[i] = (IF i % (RoutingSize + 1) = 0 THEN "|"
                             ELSE IF calc.matrix[(i \div (RoutingSize + 1)) + 1]
                                                [i % (RoutingSize + 1)] = 1
                             THEN "1" ELSE "0")

\* The all-zero matrix was serialized and parsed back.
C33Witness ==
    /\ calc.op = "matrix_text"
    /\ calc.matrix = ZeroRoutingMatrix
    /\ calc.parsed = ZeroRoutingMatrix
    /\ "1" \notin Range(calc.raw)

\* C34: a progress or result callback of a job on which cancel() has been
\* called (the job was stopped) that is delivered after the stop leaves
\* wave_cache and the displayed waveform unchanged, whatever was started in
\* its slot in between, a later job for the same path included.
C34StoppedJobResultDropped ==
    [][(/\ events # <<>>
        /\ events' = Tail(events)
        /\ Head(events).kind \in {"progress", "result"}
        /\ <<Head(events).slot, Head(events).rid>> \in cancel_called)
       => UNCHANGED <<wave_cache, display>>]_vars

\* The result of a stopped job was delivered while a later job for the same
\* path held its slot.
C34Witness ==
    /\ last.op = "result"
    /\ ~last.accepted
    /\ <<last.slot, last.rid>> \in cancel_called
    /\ IF last.slot = "A"
       THEN active_path = last.path /\ active_request_id > last.rid
       ELSE preload_path = last.path /\ preload_request_id > last.rid

\* C35: once closeEvent has returned no decode job is started again: both
\* slots stay idle, whichever thread-finished notifications of the cancelled
\* jobs are delivered afterwards.
C35NoJobAfterClose ==
    closed => active_thread = NoThread /\ preload_thread = NoThread

\* C36: each path is scheduled at most once: the preload queue has no
\* duplicates and holds exactly the paths of the preload set, the Active and
\* the Preload path differ when both slots are occupied, and neither slot's
\* path is in the preload queue.
C36ScheduledAtMostOnce ==
    /\ \A i, j \in 1..Len(preload_queue) :
          preload_queue[i] = preload_queue[j] => i = j
    /\ Range(preload_queue) = preload_set
    /\ (active_thread # NoThread /\ preload_thread # NoThread)
          => active_path # preload_path
    /\ active_thread # NoThread => active_path \notin preload_set
    /\ preload_thread # NoThread => preload_path \notin preload_set

\* Both slots hold a job and a third path waits in the preload queue.
C36Witness ==
    /\ active_thread # NoThread /\ preload_thread # NoThread
    /\ active_path # NoPath /\ preload_path # NoPath
    /\ preload_queue # <<>>
    /\ last.op \in {"add_files", "load_track"}

\* C37: while the displayed track's path waits in the preload queue both
\* slots hold a job: the displayed track is never queued while the Active
\* slot is idle.
C37DisplayedQueuedOnlyWhenBusy ==
    (CurrentTrackPath(St) # NoPath /\ CurrentTrackPath(St) \in preload_set)
    => active_thread # NoThread /\ preload_thread # NoThread

\* A slot holds a job for the path.
JobFor(p) ==
    \/ active_thread # NoThread /\ active_path = p
    \/ preload_thread # NoThread /\ preload_path = p

\* The path is scheduled: a slot holds a job for it or it is queued.
InProgress(p) == JobFor(p) \/ p \in preload_set

\* The path has a cached result or a failed job, or it was removed.
Settled(p) ==
    \/ CachePos(wave_cache, p) # 0
    \/ p \in failed_jobs
    \/ p \notin Range(tracks)

C39EveryFrameInItsBin ==
    calc.op = "bins"
      => /\ \A pos \in 0..(calc.total_frames - 1) :
               /\ pos \div calc.bucket \in 0..(calc.bins - 1)
               /\ BinIndex(pos, calc.bucket, calc.bins) = pos \div calc.bucket
         /\ \A b \in 0..(calc.bins - 1) :
               \E pos \in 0..(calc.total_frames - 1) :
                   pos \div calc.bucket = b

\* A file whose last bin is filled only in part: the frames are no multiple
\* of the bucket.
C39Witness ==
    /\ calc.op = "bins" /\ calc.bins > 1
    /\ calc.total_frames % calc.bucket # 0
    /\ BinIndex(calc.total_frames - 1, calc.bucket, calc.bins) = calc.bins - 1

\* C40: with routing mode "auto" and matrix mode disabled,
\* _resolve_playback_source returns the source path for every channel count
\* of the file and of the device, writes no file, and leaves the cache map,
\* the session set and the directory as they were.
C40AutoReturnsSourceUntouched ==
    (/\ calc.op = "resolve_call"
     /\ ~calc.before.audio_routing.matrix_enabled
     /\ calc.before.audio_routing.mode = "auto")
      => /\ calc.returned = SourcePath(2)
         /\ ~calc.rendered
         /\ calc.after.routed_dir = calc.before.routed_dir
         /\ calc.after.routed_audio_cache = calc.before.routed_audio_cache
         /\ calc.after.session_routed_files = calc.before.session_routed_files

\* A file of six channels was resolved for a stereo device in mode "auto"
\* while the cache held the routed file of another track.
C40Witness ==
    /\ calc.op = "resolve_call"
    /\ ~calc.before.audio_routing.matrix_enabled
    /\ calc.before.audio_routing.mode = "auto"
    /\ calc.source_channels = 6 /\ calc.device_max = 2
    /\ calc.info_ok
    /\ calc.before.routed_audio_cache # <<>>
    /\ calc.before.routed_dir # {}
    /\ calc.returned = SourcePath(2)

====
